---- MODULE Spec2Model ----
(***************************************************************************)
(* Relay-and-definition-mediation server of context-subtitles              *)
(* (server/index.js): the presenter/audience WebSocket registry, the       *)
(* heartbeat, the CAPTION broadcast sweep and the groqQueue that guards    *)
(* the upstream LLM call.  Every event handler of the server runs to       *)
(* completion on the single JavaScript thread; the broadcast loop is laid  *)
(* out step by step (pc = "sweep") and no other handler is enabled until   *)
(* it has finished.                                                        *)
(***************************************************************************)
EXTENDS Integers, Sequences, FiniteSets, TLC

\* ------------------------------------------------------------------ bounds
\* tracked WebSocket connections (each id is one ws object, used once)
MaxConns == 3
\* CAPTION messages the server receives in one behaviour
MaxMsgs == 2
\* saturation of the per-connection count of heartbeat ticks since it died
MaxDeadTicks == 2
\* tracked POST /define requests in one behaviour
MaxJobs == 5
\* slots of groqQueue the earlier, untracked requests leave free when the
\* queue specification starts
FreeSlots == 2
\* tracked POST /define requests where terms, outcomes and statistics vary
MaxLookups == 3
\* TAP messages the server receives in one behaviour
MaxTaps == 5
\* unparseable messages the server receives in one behaviour
MaxInvalid == 1
\* minutes the clock runs
MaxMinutes == 31
\* WebSockets the client creates in one behaviour
MaxSockets == 5
\* caption words the client accepts in one behaviour
MaxParts == 4

\* ------------------------------------------------------- program constants
MAX_CONNECTIONS == 100
CONCURRENCY == 8
CLOSE_NORMAL == 1000
CLOSE_OVERLOAD == 1013
RING_CAPACITY == 100
TOP_TAPS == 3
TOP_LOOKUPS == 10
RECENT_LOOKUPS == 20
CACHE_MAX == 1000
RETRY_LIMIT == 3

Conns == 1..MaxConns
Jobs == 1..MaxJobs
Sockets == 1..MaxSockets
NULL == 0

VARIABLES
  connState,          \* per ws: "NONE" (not yet connected), "OPEN",
                      \* "CLOSING_LOCAL" (the server called ws.close()),
                      \* "CLOSING_PEER" (the peer's close frame arrived),
                      \* "TERMINATED" (ws.terminate() was called),
                      \* "CLOSED" (the 'close' event has been emitted)
  role,               \* role query parameter of the upgrade request
  isAlive,            \* ws.isAlive: "undefined", "true" or "false"
  pinged,             \* a ping of the heartbeat is outstanding: no pong since
  peerDead,           \* the socket died silently: no pong, no frame, no close
                      \* (kept until the ws is closed)
  deadTicks,          \* heartbeat ticks since the socket died (saturating)
  closeCode,          \* code the server passed to ws.close(), 0 when none
  audience,           \* the audience Set, in insertion (= iteration) order
  presenter,          \* the presenter slot, NULL when empty
  background,         \* further open, responsive audience connections
  connectedStudents,  \* sessionStats.connectedStudents
  peakStudents,       \* sessionStats.peakStudents
  received,           \* per ws: the CAPTION messages sent to it, in order
  msgCount,           \* CAPTION messages handled so far
  lastMsg,            \* the CAPTION message handled last (msg of the handler)
  pc,                 \* "idle", or "sweep" inside the broadcast loop
  sweepMsg,           \* the message being broadcast
  sweepSender,        \* the connection it came from
  sweepIdx,           \* position of the loop in the audience
  deadConnections,    \* the handler's deadConnections array
  threw,              \* connections whose send threw in this sweep
  jobState,           \* per /define request: "none", "queued",
                      \* "running" (holds a slot), "responded"
  upstream,           \* its upstream call: "notStarted", "inFlight", "settled"
  response,           \* HTTP status sent, 0 when none yet
  queue,              \* groqQueue's waiting jobs, first in first out
  body,               \* the JSON body sent with the response
  reqTerm,            \* per request: req.body.term ("" when it is missing)
  outcome,            \* per request: how the await of chatGroq ended
  calls,              \* per request: upstream calls started for it
  added,              \* per request: jobs it added to groqQueue
  startOrder,         \* the tracked requests in the order their calls started,
                      \* each with whether it had to wait in the queue
  bgRunning,          \* earlier, untracked requests whose job holds a slot
  bgAbandoned,        \* upstream calls of untracked jobs that timed out,
                      \* still in flight
  totalWords,         \* sessionStats.totalWords
  wordFrequency,      \* sessionStats.wordFrequency: word -> count
  totalLookups,       \* sessionStats.totalLookups
  uniqueWordsLookedUp,\* sessionStats.uniqueWordsLookedUp
  lookupTimestamps,   \* sessionStats.lookupTimestamps
  definitionRequests, \* sessionStats.definitionRequests; each entry carries
                      \* its arrival number n since the last reset
  now,                \* Date.now()
  taps,               \* the taps Map: its entries [term, count] in insertion
                      \* (= iteration) order
  defCache,           \* the keys held by the defCache LRU cache
  tapCount,           \* TAP messages handled so far
  invalidCount,       \* messages JSON.parse rejected so far
  mounted,            \* the App component: "initial" (rendered, effects not
                      \* yet run), "mounted", "unmounted"
  wsReadyState,       \* per WebSocket of the client: "NONE" (not yet
                      \* created), "CONNECTING", "OPEN", "CLOSING", "CLOSED"
  established,        \* the WebSockets whose handshake has completed
  wsRef,              \* wsRef.current
  retryCountRef,      \* retryCountRef.current
  pendingTimers,      \* the reconnect timeouts that are set and have neither
                      \* fired nor been cleared, each named by the WebSocket
                      \* whose close set it
  reconnectTimeoutRef,\* reconnectTimeoutRef.current
  parts,              \* the parts state
  pendingWords,       \* pendingWordsRef.current
  displayedParts,     \* the displayedParts state
  animationTimeout    \* animationTimeoutRef.current is set

relayVars == <<connState, role, isAlive, pinged, peerDead, deadTicks, closeCode,
               audience, presenter, background, connectedStudents, peakStudents,
               received, msgCount, lastMsg, pc, sweepMsg, sweepSender, sweepIdx,
               deadConnections, threw>>
queueVars == <<jobState, upstream, response, queue, body, reqTerm, outcome, calls,
               added, startOrder, bgRunning, bgAbandoned>>
statsVars == <<totalWords, wordFrequency, totalLookups, uniqueWordsLookedUp,
               lookupTimestamps, definitionRequests, now>>
memVars == <<taps, defCache, tapCount, invalidCount>>
clientVars == <<mounted, wsReadyState, established, wsRef, retryCountRef, pendingTimers,
                reconnectTimeoutRef, parts, pendingWords, displayedParts,
                animationTimeout>>
vars == <<relayVars, queueVars, statsVars, memVars, clientVars>>

\* ----------------------------------------------------------------- helpers
SeqToSet(s) == {s[i] : i \in 1..Len(s)}

\* faulty variant: the newer value wins
MaxOfLatter(a, b) == b

Max(a, b) == IF a >= b THEN a ELSE b

Min(a, b) == IF a <= b THEN a ELSE b

\* ws.readyState
readyState(c) ==
  CASE connState[c] = "OPEN" -> "OPEN"
    [] connState[c] \in {"CLOSING_LOCAL", "CLOSING_PEER", "TERMINATED"} -> "CLOSING"
    [] connState[c] = "CLOSED" -> "CLOSED"
    [] OTHER -> "CONNECTING"

\* wss.clients: a ws is added before 'connection' is emitted and removed when
\* its 'close' event is emitted
clients == {c \in Conns : connState[c] \in {"OPEN", "CLOSING_LOCAL", "CLOSING_PEER", "TERMINATED"}}

clientsSize == Cardinality(clients) + background

\* audience.size
audienceSize(aud, bg) == Len(aud) + bg

\* the connection was refused for overload: no handler was registered on it
Refused(c) == closeCode[c] = CLOSE_OVERLOAD

\* the connection passed the limit check: pong/message/close handlers exist
Registered(c) == connState[c] # "NONE" /\ ~Refused(c)

\* Set.prototype.add
SetAdd(aud, c) == IF c \in SeqToSet(aud) THEN aud ELSE Append(aud, c)

\* faulty variant: the set keeps the element
SetDeleteNothing(aud, c) == aud

\* Set.prototype.delete
SetDelete(aud, c) == SelectSeq(aud, LAMBDA x : x # c)

\* ws.close(code): a close frame goes out only from an OPEN socket
CloseState(st) == IF st = "OPEN" THEN "CLOSING_LOCAL" ELSE st

\* ws.terminate(): the socket is destroyed, 'close' is emitted later
TerminateState(st) == IF st \in {"NONE", "CLOSED"} THEN st ELSE "TERMINATED"

\* the first ws object not yet used
nextConn == IF \E c \in Conns : connState[c] = "NONE"
            THEN CHOOSE c \in Conns : connState[c] = "NONE" /\ \A d \in Conns : d < c => connState[d] # "NONE"
            ELSE NULL

\* ------------------------------------------------------------------- text
\* a JavaScript string is the sequence of its characters
UpperCase == <<"A", "B", "C", "D", "E", "F", "G", "H", "I", "J", "K", "L", "M",
               "N", "O", "P", "Q", "R", "S", "T", "U", "V", "W", "X", "Y", "Z">>

LowerCase == <<"a", "b", "c", "d", "e", "f", "g", "h", "i", "j", "k", "l", "m",
               "n", "o", "p", "q", "r", "s", "t", "u", "v", "w", "x", "y", "z">>

\* the characters \s matches and trim() strips
WhiteSpace == {" ", "\t", "\n", "\r"}

\* the characters "." does not match and "$" stops at
LineTerminators == {"\n", "\r"}

LowerChar(ch) ==
  IF \E i \in 1..Len(UpperCase) : UpperCase[i] = ch
  THEN LowerCase[CHOOSE i \in 1..Len(UpperCase) : UpperCase[i] = ch]
  ELSE ch

\* faulty variant: the letters keep their case
toLowerCaseKept(str) == str

\* String.prototype.toLowerCase
toLowerCase(str) == [i \in 1..Len(str) |-> LowerChar(str[i])]

\* String.prototype.slice(from, to) with 0 <= from, counted from 0
slice(str, from, to) == SubSeq(str, from + 1, Min(to, Len(str)))

RECURSIVE trimStart(_)
trimStart(str) ==
  IF str # <<>> /\ Head(str) \in WhiteSpace THEN trimStart(Tail(str)) ELSE str

RECURSIVE trimEnd(_)
trimEnd(str) ==
  IF str # <<>> /\ str[Len(str)] \in WhiteSpace
  THEN trimEnd(SubSeq(str, 1, Len(str) - 1))
  ELSE str

\* String.prototype.trim
trim(str) == trimEnd(trimStart(str))

\* a CAPTION message with these words (isArray: msg.words is an array)
CaptionMsg(words) == [isArray |-> TRUE, words |-> words]

NoWordsMsg == [isArray |-> FALSE, words |-> <<>>]

\* a Map without entries
EmptyMap == [w \in {} |-> 0]

\* ------------------------------------------------------------------- Init
\* the registry right after the server has started (background further
\* audience connections are open already)
RegistryInit ==
  /\ connState = [c \in Conns |-> "NONE"]
  /\ role = [c \in Conns |-> "none"]
  /\ isAlive = [c \in Conns |-> "undefined"]
  /\ pinged = [c \in Conns |-> FALSE]
  /\ peerDead = [c \in Conns |-> FALSE]
  /\ deadTicks = [c \in Conns |-> 0]
  /\ closeCode = [c \in Conns |-> 0]
  /\ audience = <<>>
  /\ presenter = NULL
  /\ connectedStudents = background
  /\ peakStudents = background
  /\ received = [c \in Conns |-> <<>>]
  /\ msgCount = 0
  /\ lastMsg = NoWordsMsg
  /\ pc = "idle"
  /\ sweepMsg = 0
  /\ sweepSender = NULL
  /\ sweepIdx = 0
  /\ deadConnections = <<>>
  /\ threw = {}

\* no response sent yet
NoBody == [kind |-> "none", definition |-> <<>>, model |-> "", cached |-> FALSE]

\* the await of chatGroq has not ended
Pending == [kind |-> "pending", content |-> <<>>]

\* groqQueue when k earlier requests are running and none is waiting
QueueStart(k) ==
  /\ jobState = [j \in Jobs |-> "none"]
  /\ upstream = [j \in Jobs |-> "notStarted"]
  /\ response = [j \in Jobs |-> 0]
  /\ queue = <<>>
  /\ body = [j \in Jobs |-> NoBody]
  /\ reqTerm = [j \in Jobs |-> <<>>]
  /\ outcome = [j \in Jobs |-> Pending]
  /\ calls = [j \in Jobs |-> 0]
  /\ added = [j \in Jobs |-> 0]
  /\ startOrder = <<>>
  /\ bgRunning = k
  /\ bgAbandoned = 0

\* the term of the earlier requests
PriorTerm == <<"b", "a", "n", "k">>

\* sessionStats after n accepted lookups of PriorTerm and no caption
StatsStart(n) ==
  /\ totalWords = 0
  /\ wordFrequency = EmptyMap
  /\ totalLookups = n
  /\ uniqueWordsLookedUp = IF n = 0 THEN {} ELSE {toLowerCase(PriorTerm)}
  /\ lookupTimestamps = [i \in 1..n |-> 0]
  /\ definitionRequests =
       [i \in 1..Min(n, RING_CAPACITY) |->
          [term |-> PriorTerm, timestamp |-> 0, n |-> n - Min(n, RING_CAPACITY) + i]]
  /\ now = 0

\* taps and defCache as the module creates them
MemoryInit ==
  /\ taps = <<>>
  /\ defCache = {}
  /\ tapCount = 0
  /\ invalidCount = 0

\* the App component after its first render: no effect has run
ClientInit ==
  /\ mounted = "initial"
  /\ wsReadyState = [s \in Sockets |-> "NONE"]
  /\ established = {}
  /\ wsRef = NULL
  /\ retryCountRef = 0
  /\ pendingTimers = {}
  /\ reconnectTimeoutRef = NULL
  /\ parts = <<>>
  /\ pendingWords = <<>>
  /\ displayedParts = <<>>
  /\ animationTimeout = FALSE

Init ==
  /\ background \in {0, MAX_CONNECTIONS - MaxConns}
  /\ MemoryInit
  /\ ClientInit
  /\ RegistryInit
  /\ QueueStart(0)
  /\ StatsStart(0)

\* -------------------------------------------------- wss.on("connection")
\* the limit check: wss.clients already holds the new ws
OverLimit == clientsSize + 1 >= MAX_CONNECTIONS

\* faulty variant: the new presenter is adopted without closing the old one
EvictPresenterNoClose(st, p) == st

\* presenter.close(1000, ...) on the registered presenter, if there is one
EvictPresenter(st, p) ==
  IF p # NULL THEN [st EXCEPT ![p] = CloseState(@)] ELSE st

\* faulty variant: the return after ws.close(1013) is missing, the refused ws is
\* registered as audience all the same
RefuseWithoutReturn(c) ==
  /\ connState' = [connState EXCEPT ![c] = "CLOSING_LOCAL"]
  /\ closeCode' = [closeCode EXCEPT ![c] = CLOSE_OVERLOAD]
  /\ isAlive' = [isAlive EXCEPT ![c] = "true"]
  /\ audience' = SetAdd(audience, c)
  /\ connectedStudents' = audienceSize(audience', background)
  /\ peakStudents' = Max(peakStudents, audienceSize(audience', background))
  /\ UNCHANGED presenter

\* ws.close(1013, ...); return
Refuse(c) ==
  /\ connState' = [connState EXCEPT ![c] = "CLOSING_LOCAL"]
  /\ closeCode' = [closeCode EXCEPT ![c] = CLOSE_OVERLOAD]
  /\ UNCHANGED <<isAlive, audience, presenter, connectedStudents, peakStudents>>

\* the rest of the handler: isAlive, the role branch
Accept(c, r) ==
  /\ isAlive' = [isAlive EXCEPT ![c] = "true"]
  /\ IF r = "presenter"
     THEN /\ connState' = [EvictPresenter(connState, presenter) EXCEPT ![c] = "OPEN"]
          /\ closeCode' = [x \in Conns |->
                IF x = presenter /\ connState'[x] = "CLOSING_LOCAL" /\ connState[x] = "OPEN"
                THEN CLOSE_NORMAL ELSE closeCode[x]]
          /\ presenter' = c
          /\ UNCHANGED <<audience, connectedStudents, peakStudents>>
     ELSE /\ connState' = [connState EXCEPT ![c] = "OPEN"]
          /\ audience' = SetAdd(audience, c)
          /\ connectedStudents' = audienceSize(audience', background)
          /\ peakStudents' = Max(peakStudents, audienceSize(audience', background))
          /\ UNCHANGED <<closeCode, presenter>>

Connection(c, r) ==
  /\ pc = "idle"
  /\ c = nextConn
  /\ role' = [role EXCEPT ![c] = r]
  /\ IF OverLimit THEN Refuse(c) ELSE Accept(c, r)
  /\ UNCHANGED <<pinged, peerDead, deadTicks, background, received, msgCount, lastMsg, pc,
                 sweepMsg, sweepSender, sweepIdx, deadConnections, threw>>
  /\ UNCHANGED <<queueVars, statsVars, memVars, clientVars>>

\* --------------------------------------------------------- ws.on("close")
\* the peer starts the closing handshake: readyState becomes CLOSING, the
\* 'close' event follows when the socket has ended
PeerClose(c) ==
  /\ pc = "idle"
  /\ connState[c] = "OPEN"
  /\ ~peerDead[c]
  /\ connState' = [connState EXCEPT ![c] = "CLOSING_PEER"]
  /\ UNCHANGED <<role, isAlive, pinged, peerDead, deadTicks, closeCode, audience,
                 presenter, background, connectedStudents, peakStudents, received,
                 msgCount, lastMsg, pc, sweepMsg, sweepSender, sweepIdx, deadConnections, threw>>
  /\ UNCHANGED <<queueVars, statsVars, memVars, clientVars>>

\* faulty variant: every close clears the presenter slot
ClosePresenterAlways(p, c) == NULL

\* if (ws === presenter) presenter = null
ClosePresenter(p, c) == IF c = p THEN NULL ELSE p

\* the 'close' event of ws c: wss drops it from wss.clients, and the handler
\* (if one was registered) unregisters it
CloseEvent(c) ==
  /\ pc = "idle"
  /\ \/ connState[c] \in {"CLOSING_LOCAL", "TERMINATED"}
     \/ connState[c] \in {"OPEN", "CLOSING_PEER"} /\ ~peerDead[c]
  /\ connState' = [connState EXCEPT ![c] = "CLOSED"]
  /\ pinged' = [pinged EXCEPT ![c] = FALSE]
  /\ peerDead' = [peerDead EXCEPT ![c] = FALSE]
  /\ deadTicks' = [deadTicks EXCEPT ![c] = 0]
  /\ IF Registered(c)
     THEN /\ audience' = SetDelete(audience, c)
          /\ presenter' = ClosePresenter(presenter, c)
          /\ connectedStudents' = audienceSize(audience', background)
     ELSE UNCHANGED <<audience, presenter, connectedStudents>>
  /\ UNCHANGED <<role, isAlive, closeCode, background,
                 peakStudents, received, msgCount, lastMsg, pc, sweepMsg, sweepSender,
                 sweepIdx, deadConnections, threw>>
  /\ UNCHANGED <<queueVars, statsVars, memVars, clientVars>>

\* ------------------------------------------------------------- heartbeat
\* faulty variant: the heartbeat terminates whatever it finds
StaleEveryClient == clients

\* ws.isAlive === false
Stale == {c \in clients : isAlive[c] = "false"}

\* audience.delete(ws) for every stale ws
HeartbeatAudience(aud, stale) == SelectSeq(aud, LAMBDA x : x \notin stale)

\* faulty variant: the heartbeat forgets the presenter slot
HeartbeatPresenterKept(p, stale) == p

\* if (ws === presenter) presenter = null
HeartbeatPresenter(p, stale) == IF p \in stale THEN NULL ELSE p

\* faulty variant: the heartbeat pings without clearing ws.isAlive
HeartbeatAliveKept(alive, pingedNow) == alive

\* ws.isAlive = false for every ws that was not stale
HeartbeatAlive(alive, pingedNow) ==
  [c \in Conns |-> IF c \in pingedNow THEN "false" ELSE alive[c]]

HeartbeatTick ==
  /\ pc = "idle"
  /\ clients # {}
  /\ audience' = HeartbeatAudience(audience, Stale)
  /\ presenter' = HeartbeatPresenter(presenter, Stale)
  /\ connState' = [c \in Conns |-> IF c \in Stale THEN TerminateState(connState[c])
                                   ELSE connState[c]]
  /\ isAlive' = HeartbeatAlive(isAlive, clients \ Stale)
  /\ pinged' = [c \in Conns |-> IF c \in clients THEN TRUE ELSE pinged[c]]
  /\ deadTicks' = [c \in Conns |-> IF peerDead[c] THEN Min(deadTicks[c] + 1, MaxDeadTicks)
                                   ELSE deadTicks[c]]
  /\ UNCHANGED <<role, peerDead, closeCode, background, connectedStudents,
                 peakStudents, received, msgCount, lastMsg, pc, sweepMsg, sweepSender,
                 sweepIdx, deadConnections, threw>>
  /\ UNCHANGED <<queueVars, statsVars, memVars, clientVars>>

\* ws.on('pong'): the peer answers the outstanding ping
Pong(c) ==
  /\ pc = "idle"
  /\ Registered(c)
  /\ connState[c] = "OPEN"
  /\ pinged[c]
  /\ ~peerDead[c]
  /\ isAlive' = [isAlive EXCEPT ![c] = "true"]
  /\ pinged' = [pinged EXCEPT ![c] = FALSE]
  /\ UNCHANGED <<connState, role, peerDead, deadTicks, closeCode, audience, presenter,
                 background, connectedStudents, peakStudents, received, msgCount, lastMsg, pc,
                 sweepMsg, sweepSender, sweepIdx, deadConnections, threw>>
  /\ UNCHANGED <<queueVars, statsVars, memVars, clientVars>>

\* the socket of an open audience connection dies without a close: from now
\* on the peer neither answers pings nor sends frames, and readyState stays OPEN
PeerDies(c) ==
  /\ pc = "idle"
  /\ connState[c] = "OPEN"
  /\ c \in SeqToSet(audience)
  /\ ~peerDead[c]
  /\ peerDead' = [peerDead EXCEPT ![c] = TRUE]
  /\ UNCHANGED <<connState, role, isAlive, pinged, deadTicks, closeCode, audience,
                 presenter, background, connectedStudents, peakStudents, received,
                 msgCount, lastMsg, pc, sweepMsg, sweepSender, sweepIdx, deadConnections, threw>>
  /\ UNCHANGED <<queueVars, statsVars, memVars, clientVars>>

\* ------------------------------------------- ws.on("message"), CAPTION
\* frames still arrive from a ws the server has asked to close
CanSend(c) ==
  /\ Registered(c)
  /\ connState[c] \in {"OPEN", "CLOSING_LOCAL"}
  /\ ~peerDead[c]

\* faulty variant: the newest message overtakes the ones sent before
DeliverFirst(rcv, m) == <<m>> \o rcv

\* c.send(buf)
Deliver(rcv, m) == Append(rcv, m)

\* faulty variant: no try/catch inside the loop, a throwing send ends the sweep
AfterCatchAbort(idx, aud) == Len(aud) + 1

\* the loop goes on with the next connection after the inner catch
AfterCatch(idx, aud) == idx + 1

\* faulty variant: the dead connections are collected and never deleted
SweepCleanupSkipped(aud, dead) == aud

\* deadConnections.forEach(c => audience.delete(c))
SweepCleanup(aud, dead) == SelectSeq(aud, LAMBDA x : x \notin SeqToSet(dead))

\* the elements a words array can hold: an object with a string text, an
\* object without a text, null, and an object whose text is not a string
Word(str) == [kind |-> "text", text |-> str]

NoText == [kind |-> "notext", text |-> <<>>]

NullWord == [kind |-> "null", text |-> <<>>]

NumberText == [kind |-> "number", text |-> <<>>]

\* reading wordObj.text of null, or calling trim on a number, throws
Malformed(wordObj) == wordObj.kind \in {"null", "number"}

\* (wordObj.text || '').trim().toLowerCase()
wordOf(wordObj) == toLowerCase(trim(wordObj.text))

\* wordFrequency.set(word, (wordFrequency.get(word) || 0) + 1)
Increment(freq, word) ==
  [w \in DOMAIN freq \cup {word} |->
     IF w = word THEN (IF w \in DOMAIN freq THEN freq[w] ELSE 0) + 1 ELSE freq[w]]

\* faulty variant: blank tokens are counted too
CountedAlways(word) == TRUE

\* if (word) { ... }: the words that are counted
Counted(word) == word # <<>>

\* msg.words.forEach(...): the statistics it leaves, and whether it threw
RECURSIVE forEachWord(_, _, _)
forEachWord(words, total, freq) ==
  IF words = <<>> THEN [totalWords |-> total, wordFrequency |-> freq, threw |-> FALSE]
  ELSE IF Malformed(Head(words))
  THEN [totalWords |-> total, wordFrequency |-> freq, threw |-> TRUE]
  ELSE IF Counted(wordOf(Head(words)))
  THEN forEachWord(Tail(words), total + 1, Increment(freq, wordOf(Head(words))))
  ELSE forEachWord(Tail(words), total, freq)

\* a CAPTION message arrives on ws s: the words are counted, then the
\* handler reaches the broadcast loop, unless counting threw and the outer
\* catch ended the handler
Caption(s, msg) ==
  /\ pc = "idle"
  /\ CanSend(s)
  /\ msgCount < MaxMsgs
  /\ msgCount' = msgCount + 1
  /\ lastMsg' = msg
  /\ LET counted == IF msg.isArray
                    THEN forEachWord(msg.words, totalWords, wordFrequency)
                    ELSE [totalWords |-> totalWords, wordFrequency |-> wordFrequency,
                          threw |-> FALSE]
     IN /\ totalWords' = counted.totalWords
        /\ wordFrequency' = counted.wordFrequency
        /\ IF counted.threw
           THEN UNCHANGED <<sweepMsg, sweepSender, sweepIdx, deadConnections, threw, pc>>
           ELSE /\ sweepMsg' = msgCount + 1
                /\ sweepSender' = s
                /\ sweepIdx' = 1
                /\ deadConnections' = <<>>
                /\ threw' = {}
                /\ pc' = "sweep"
  /\ UNCHANGED <<connState, role, isAlive, pinged, peerDead, deadTicks, closeCode,
                 audience, presenter, background, connectedStudents, peakStudents,
                 received>>
  /\ UNCHANGED <<totalLookups, uniqueWordsLookedUp, lookupTimestamps,
                 definitionRequests, now>>
  /\ UNCHANGED <<queueVars, memVars, clientVars>>

\* one iteration of for (const c of audience)
SweepStep ==
  /\ pc = "sweep"
  /\ sweepIdx <= Len(audience)
  /\ LET c == audience[sweepIdx] IN
       \/ /\ readyState(c) = "OPEN"
          /\ received' = [received EXCEPT ![c] = Deliver(@, sweepMsg)]
          /\ sweepIdx' = sweepIdx + 1
          /\ UNCHANGED <<deadConnections, threw>>
       \/ /\ readyState(c) = "OPEN"
          /\ threw' = threw \cup {c}
          /\ deadConnections' = Append(deadConnections, c)
          /\ sweepIdx' = AfterCatch(sweepIdx, audience)
          /\ UNCHANGED received
       \/ /\ readyState(c) # "OPEN"
          /\ deadConnections' = Append(deadConnections, c)
          /\ sweepIdx' = sweepIdx + 1
          /\ UNCHANGED <<received, threw>>
  /\ UNCHANGED <<connState, role, isAlive, pinged, peerDead, deadTicks, closeCode,
                 audience, presenter, background, connectedStudents, peakStudents,
                 msgCount, lastMsg, pc, sweepMsg, sweepSender>>
  /\ UNCHANGED <<queueVars, statsVars, memVars, clientVars>>

\* after the loop: the clean-up and the student count
SweepEnd ==
  /\ pc = "sweep"
  /\ sweepIdx > Len(audience)
  /\ audience' = SweepCleanup(audience, deadConnections)
  /\ connectedStudents' = audienceSize(audience', background)
  /\ peakStudents' = Max(peakStudents, audienceSize(audience', background))
  /\ pc' = "idle"
  /\ sweepMsg' = 0
  /\ sweepSender' = NULL
  /\ sweepIdx' = 0
  /\ deadConnections' = <<>>
  /\ threw' = {}
  /\ UNCHANGED <<connState, role, isAlive, pinged, peerDead, deadTicks, closeCode,
                 presenter, background, received, msgCount, lastMsg>>
  /\ UNCHANGED <<queueVars, statsVars, memVars, clientVars>>

\* ----------------------------------------------- ws.on("message"), TAP
\* a TAP message: lemma and word are each a string (Word), missing (NoText)
\* or a number other than 0 (NumberText)
TapMsg(lemma, word) == [lemma |-> lemma, word |-> word]

\* the values || passes on: a non-empty string, a number other than 0
Truthy(value) == value.kind = "number" \/ (value.kind = "text" /\ value.text # <<>>)

\* msg.lemma || msg.word || ""
lemmaOrWord(msg) ==
  IF Truthy(msg.lemma) THEN msg.lemma
  ELSE IF Truthy(msg.word) THEN msg.word
  ELSE Word(<<>>)

\* a number has no toLowerCase: the call throws and the outer catch ends
\* the handler
tapThrows(msg) == lemmaOrWord(msg).kind = "number"

\* (msg.lemma || msg.word || "").toLowerCase().trim()
lemmaOf(msg) == trim(toLowerCase(lemmaOrWord(msg).text))

\* if (!lemma) return
noLemma(lemma) == lemma = <<>>

\* taps.set(lemma, (taps.get(lemma) || 0) + 1): a new key goes to the end,
\* a known key keeps its place
tapsSet(map, lemma) ==
  IF \E i \in 1..Len(map) : map[i].term = lemma
  THEN [i \in 1..Len(map) |->
          IF map[i].term = lemma
          THEN [term |-> lemma, count |-> map[i].count + 1]
          ELSE map[i]]
  ELSE Append(map, [term |-> lemma, count |-> 1])

\* a TAP message arrives on ws s
Tap(s, msg) ==
  /\ pc = "idle"
  /\ CanSend(s)
  /\ tapCount < MaxTaps
  /\ tapCount' = tapCount + 1
  /\ taps' = IF tapThrows(msg) \/ noLemma(lemmaOf(msg))
             THEN taps
             ELSE tapsSet(taps, lemmaOf(msg))
  /\ UNCHANGED <<defCache, invalidCount>>
  /\ UNCHANGED <<relayVars, queueVars, statsVars, clientVars>>

\* faulty variant: no try/catch around the handler, the exception ends the
\* process and with it every connection
InvalidMessageUncaught(s) ==
  /\ pc = "idle"
  /\ CanSend(s)
  /\ invalidCount < MaxInvalid
  /\ invalidCount' = invalidCount + 1
  /\ connState' = [c \in Conns |-> TerminateState(connState[c])]
  /\ audience' = <<>>
  /\ presenter' = NULL
  /\ UNCHANGED <<role, isAlive, pinged, peerDead, deadTicks, closeCode, background,
                 connectedStudents, peakStudents, received, msgCount, lastMsg, pc,
                 sweepMsg, sweepSender, sweepIdx, deadConnections, threw>>
  /\ UNCHANGED <<taps, defCache, tapCount>>
  /\ UNCHANGED <<queueVars, statsVars, clientVars>>

\* a message that is not JSON, or the JSON text null, arrives on ws s:
\* JSON.parse or reading msg.type throws, the catch logs a warning and the
\* handler ends
InvalidMessage(s) ==
  /\ pc = "idle"
  /\ CanSend(s)
  /\ invalidCount < MaxInvalid
  /\ invalidCount' = invalidCount + 1
  /\ UNCHANGED <<taps, defCache, tapCount>>
  /\ UNCHANGED <<relayVars, queueVars, statsVars, clientVars>>

\* ---------------------------------------------------------- GET /api/top
\* entry goes behind the entries of sorted whose count is not smaller
insertByCount(sorted, entry) ==
  LET k == Cardinality({i \in 1..Len(sorted) : sorted[i].count >= entry.count})
  IN SubSeq(sorted, 1, k) \o <<entry>> \o SubSeq(sorted, k + 1, Len(sorted))

RECURSIVE sortByCount(_)
\* faulty variant: the entries are left in insertion order
sortUnsorted(entries) == entries

\* [...entries].sort((a, b) => b[1] - a[1]): descending by count, entries of
\* equal count in their old order
sortByCount(entries) ==
  IF entries = <<>> THEN <<>>
  ELSE insertByCount(sortByCount(SubSeq(entries, 1, Len(entries) - 1)),
                     entries[Len(entries)])

\* the response of GET /api/top
GetTop == slice(sortByCount(taps), 0, TOP_TAPS)

\* ------------------------------------- POST /define: cleaning the output
THINK_OPEN == <<"<", "t", "h", "i", "n", "k", ">">>

THINK_CLOSE == <<"<", "/", "t", "h", "i", "n", "k", ">">>

\* the alternatives of the reasoning-prefix pattern
REASONING_PREFIXES ==
  { <<"H", "m", "m", ",">>,
    <<"L", "e", "t", " ", "m", "e", " ", "t", "h", "i", "n", "k">>,
    <<"I", " ", "n", "e", "e", "d", " ", "t", "o">>,
    <<"T", "h", "e", " ", "u", "s", "e", "r", " ", "w", "a", "n", "t", "s", " ",
      "m", "e", " ", "t", "o">> }

\* the literal pat matches str at position i (ci: ignoring letter case)
MatchAt(str, i, pat, ci) ==
  /\ i + Len(pat) - 1 <= Len(str)
  /\ \A k \in 1..Len(pat) :
       (IF ci THEN LowerChar(str[i + k - 1]) ELSE str[i + k - 1]) = pat[k]

\* the first of the positions at within from..Len(str) that is reached over
\* characters "." matches, 0 when there is none
FirstOnLine(str, from, at) ==
  LET hits == {j \in from..Len(str) :
                 /\ j \in at
                 /\ \A m \in from..(j - 1) : str[m] \notin LineTerminators}
  IN IF hits = {} THEN 0 ELSE CHOOSE j \in hits : \A k \in hits : j <= k

\* the position where the line of position i ends
LineEnd(str, i) ==
  LET ends == {j \in i..Len(str) : str[j] \in LineTerminators}
  IN IF ends = {} THEN Len(str) + 1 ELSE CHOOSE j \in ends : \A k \in ends : j <= k

\* the first position from i on that is not white space
SkipSpace(str, i) ==
  LET rest == {j \in i..Len(str) : str[j] \notin WhiteSpace}
  IN IF rest = {} THEN Len(str) + 1 ELSE CHOOSE j \in rest : \A k \in rest : j <= k

\* cleaned.replace(/<think>.*?<\/think>/gi, '')
RECURSIVE stripThinkSpans(_, _)
stripThinkSpans(str, i) ==
  IF i > Len(str) THEN <<>>
  ELSE LET close == IF MatchAt(str, i, THINK_OPEN, TRUE)
                    THEN FirstOnLine(str, i + Len(THINK_OPEN),
                                     {j \in 1..Len(str) : MatchAt(str, j, THINK_CLOSE, TRUE)})
                    ELSE 0
       IN IF close # 0
          THEN stripThinkSpans(str, close + Len(THINK_CLOSE))
          ELSE <<str[i]>> \o stripThinkSpans(str, i + 1)

\* cleaned.replace(/<think>.*$/gm, '')
RECURSIVE stripOpenThink(_, _)
stripOpenThink(str, i) ==
  IF i > Len(str) THEN <<>>
  ELSE IF MatchAt(str, i, THINK_OPEN, FALSE)
       THEN stripOpenThink(str, LineEnd(str, i + Len(THINK_OPEN)))
       ELSE <<str[i]>> \o stripOpenThink(str, i + 1)

\* cleaned.replace(/^(?:Hmm,|Let me think|I need to|The user wants me to).*?(?:\.|:)\s*/gm, '')
RECURSIVE stripReasoningPrefix(_, _)
stripReasoningPrefix(str, i) ==
  IF i > Len(str) THEN <<>>
  ELSE LET atLineStart == i = 1 \/ str[i - 1] \in LineTerminators
           heads == {pre \in REASONING_PREFIXES : MatchAt(str, i, pre, FALSE)}
           stop == IF atLineStart /\ heads # {}
                   THEN FirstOnLine(str, i + Len(CHOOSE pre \in heads : TRUE),
                                    {j \in 1..Len(str) : str[j] \in {".", ":"}})
                   ELSE 0
       IN IF stop # 0
          THEN stripReasoningPrefix(str, SkipSpace(str, stop + 1))
          ELSE <<str[i]>> \o stripReasoningPrefix(str, i + 1)

\* cleaned.replace(/\s+/g, " ")
RECURSIVE collapseSpace(_, _)
collapseSpace(str, i) ==
  IF i > Len(str) THEN <<>>
  ELSE IF str[i] \in WhiteSpace
       THEN <<" ">> \o collapseSpace(str, SkipSpace(str, i))
       ELSE <<str[i]>> \o collapseSpace(str, i + 1)

\* the cleaning of lines 296-306
Clean(out) ==
  LET noSpans == stripThinkSpans(out, 1)
      noOpen == stripOpenThink(noSpans, 1)
      noPrefix == stripReasoningPrefix(noOpen, 1)
  IN trim(collapseSpace(noPrefix, 1))

\* cleaned.match(/^(.+?[.!?])\s/)?.[1] || cleaned
firstSentence(cleaned) ==
  LET stop == FirstOnLine(cleaned, 1,
                {j \in 2..Len(cleaned) :
                   /\ cleaned[j] \in {".", "!", "?"}
                   /\ j + 1 <= Len(cleaned)
                   /\ cleaned[j + 1] \in WhiteSpace})
  IN IF stop # 0 THEN SubSeq(cleaned, 1, stop) ELSE cleaned

\* ------------------------------------------ POST /define and groqQueue
\* `groq:${GROQ_MODEL}`
USED_MODEL == "groq:llama-3.3-70b-versatile"

MIN_LENGTH == 10
MAX_DEFINITION == 240

\* what groqClient.chat.completions.create can do: reject, or resolve with
\* a message content (the empty one stands for a missing content too)
Throws == [kind |-> "throws", content |-> <<>>]

Content(str) == [kind |-> "content", content |-> str]

\* the promise of groqQueue.add rejected with a timeout error
TimeoutError == [kind |-> "timeout", content |-> <<>>]

SKIP == <<"s", "k", "i", "p">>

\* "A bank holds money. It lends."
TwoSentences == <<"A", " ", "b", "a", "n", "k", " ", "h", "o", "l", "d", "s", " ", "m", "o", "n", "e", "y", ".", " ", "I", "t", " ", "l", "e", "n", "d", "s", ".">>

Outcomes ==
  { Throws,
    Content(<<>>),
    Content(<<" ", "\n">>),
    Content(<<"S", "k", "i", "p">>),
    Content(<<" ", "S", "K", "I", "P", "\n">>),
    Content(<<"s", "k", "i", "p", ".">>),
    Content(THINK_OPEN \o <<"h", "m">> \o THINK_CLOSE \o SKIP),
    Content(TwoSentences),
    Content(THINK_OPEN \o <<"x">> \o THINK_CLOSE \o <<"A", " ", "b", "a", "n", "k", "\n", "h", "o", "l", "d", "s", " ", " ", "m", "o", "n", "e", "y">>),
    Content(<<"H", "m", "m", ",", " ", "I", " ", "s", "e", "e", ":", " ", "T", "o", "o", " ", "s", "h", "o", "r", "t">>),
    Content(THINK_OPEN \o <<"n", "e", "v", "e", "r">>) }

\* the outcomes the queue specification draws from
QueueOutcomes == {Content(TwoSentences)}

ErrorBody == [kind |-> "error", definition |-> <<>>, model |-> "", cached |-> FALSE]

\* faulty variant: the answer is marked as served from the cache
DefinitionBodyCached(def) ==
  [kind |-> "definition", definition |-> def, model |-> USED_MODEL, cached |-> TRUE]

\* res.json({ ...payload, cached: false })
DefinitionBody(def) ==
  [kind |-> "definition", definition |-> def, model |-> USED_MODEL, cached |-> FALSE]

\* faulty variant: only the lower-case spelling is recognised
isSkipExact(text) == text = SKIP

\* out.toLowerCase() === "skip"
isSkip(text) == toLowerCase(text) = SKIP

\* faulty variant: only an empty text is refused
tooShortOnlyEmpty(cleaned) == cleaned = <<>>

\* !cleaned || cleaned.length < 10
tooShort(cleaned) == cleaned = <<>> \/ Len(cleaned) < MIN_LENGTH

\* the handler from the settled upstream call to its response: the status
\* and the body
Answer(out) ==
  LET text == trim(out.content) IN
  IF out.kind # "content" \/ text = <<>>
  THEN [status |-> 502, body |-> ErrorBody]
  ELSE IF isSkip(text)
  THEN [status |-> 200, body |-> DefinitionBody(SKIP)]
  ELSE IF tooShort(Clean(text))
  THEN [status |-> 502, body |-> ErrorBody]
  ELSE [status |-> 200,
        body |-> DefinitionBody(slice(firstSentence(Clean(text)), 0, MAX_DEFINITION))]

\* Answer, worked out once for every outcome
AnswerTable == {<<out, Answer(out)>> : out \in Outcomes \cup {TimeoutError}}

Answered(out) == (CHOOSE entry \in AnswerTable : entry[1] = out)[2]

\* status the handler answers with once the upstream call has settled in time
Status(out) == Answered(out).status

\* groqQueue.pending: jobs that hold a concurrency slot
pendingCount == Cardinality({j \in Jobs : jobState[j] = "running"}) + bgRunning

\* upstream calls of tracked requests that were started and have not settled
inFlight == {j \in Jobs : upstream[j] = "inFlight"}

\* all upstream calls that were started and have not settled
inFlightCount == Cardinality(inFlight) + bgRunning + bgAbandoned

\* the next request
nextJob == IF \E j \in Jobs : jobState[j] = "none"
           THEN CHOOSE j \in Jobs : jobState[j] = "none" /\ \A k \in Jobs : k < j => jobState[k] # "none"
           ELSE NULL

Occurrences(q, j) == Cardinality({i \in 1..Len(q) : q[i] = j})

\* faulty variant: the job added last runs next
DequeuedNewest(q) == Len(q)

\* the position in q of the job that runs next, 0 when none waits
\* (p-queue's dequeue: all jobs have priority 5, the oldest goes first)
Dequeued(q) == IF q = <<>> THEN 0 ELSE 1

\* q without its element at position i
RemoveAt(q, i) == IF i = 0 THEN q ELSE SubSeq(q, 1, i - 1) \o SubSeq(q, i + 1, Len(q))

\* faulty variant: a released slot is never handed to a waiting job
ReleasedNone(q) == {}

\* the jobs that leave the queue when a slot is released (p-queue's _next)
Released(q) == IF Dequeued(q) = 0 THEN {} ELSE {q[Dequeued(q)]}

\* faulty variant: a second job is added for the same request
chatGroqTwice(q, j) == Append(Append(q, j), j)

\* groqQueue.add: one job for the request, behind the jobs that wait
chatGroq(q, j) == Append(q, j)

\* faulty variant: nothing is ever evicted
RingPushUnbounded(ring, entry) == Append(ring, entry)

\* definitionRequests.push(entry); if (length > 100) shift()
RingPush(ring, entry) ==
  LET pushed == Append(ring, entry)
  IN IF Len(pushed) > RING_CAPACITY THEN Tail(pushed) ELSE pushed

\* p-queue starts the job it dequeues from q, if there is one: its upstream
\* call begins
StartNext(js, up, q) ==
  /\ jobState' = [k \in Jobs |-> IF k \in Released(q) THEN "running" ELSE js[k]]
  /\ upstream' = [k \in Jobs |-> IF k \in Released(q) THEN "inFlight" ELSE up[k]]
  /\ calls' = [k \in Jobs |-> IF k \in Released(q) THEN calls[k] + 1 ELSE calls[k]]
  /\ startOrder' = IF Released(q) = {} THEN startOrder
                   ELSE Append(startOrder, [job |-> q[Dequeued(q)],
                                            waited |-> jobState[q[Dequeued(q)]] = "queued"])
  /\ queue' = RemoveAt(q, Dequeued(q))

\* faulty variant: the item is not stored
pushNothing(array, item) == array

\* Array.prototype.push
push(array, item) == Append(array, item)

\* faulty variant: an empty term is accepted like any other
missingNever(term) == FALSE

\* !term
missing(term) == term = <<>>

\* POST /define with req.body.term = rawTerm (the empty string when it is
\* missing), up to the await: 400 for an empty term; otherwise the lookup is
\* recorded and chatGroq adds one job, which starts at once when a slot is
\* free and waits otherwise
Define(j, rawTerm) ==
  /\ pc = "idle"
  /\ j = nextJob
  /\ LET term == trim(rawTerm) IN
     IF missing(term)
     THEN /\ jobState' = [jobState EXCEPT ![j] = "responded"]
          /\ response' = [response EXCEPT ![j] = 400]
          /\ body' = [body EXCEPT ![j] = ErrorBody]
          /\ UNCHANGED <<upstream, queue, calls, added, startOrder>>
          /\ UNCHANGED statsVars
     ELSE /\ totalLookups' = totalLookups + 1
          /\ uniqueWordsLookedUp' = uniqueWordsLookedUp \cup {toLowerCase(term)}
          /\ lookupTimestamps' = push(lookupTimestamps, now)
          /\ definitionRequests' =
               RingPush(definitionRequests,
                        [term |-> term, timestamp |-> now, n |-> totalLookups + 1])
          /\ added' = [added EXCEPT ![j] = Occurrences(chatGroq(queue, j), j)]
          /\ IF pendingCount < CONCURRENCY
             THEN StartNext([jobState EXCEPT ![j] = "queued"], upstream,
                            chatGroq(queue, j))
             ELSE /\ jobState' = [jobState EXCEPT ![j] = "queued"]
                  /\ queue' = chatGroq(queue, j)
                  /\ UNCHANGED <<upstream, calls, startOrder>>
          /\ UNCHANGED <<response, body>>
          /\ UNCHANGED <<totalWords, wordFrequency, now>>
  /\ reqTerm' = [reqTerm EXCEPT ![j] = rawTerm]
  /\ UNCHANGED <<outcome, bgRunning, bgAbandoned>>
  /\ UNCHANGED <<relayVars, memVars, clientVars>>

\* the upstream call of job j settles with outcome out.  A job still running
\* answers its request and releases its slot; a call whose job has timed
\* out settles unobserved
UpstreamSettles(j, out) ==
  /\ pc = "idle"
  /\ upstream[j] = "inFlight"
  /\ IF jobState[j] = "running"
     THEN /\ StartNext([jobState EXCEPT ![j] = "responded"],
                       [upstream EXCEPT ![j] = "settled"], queue)
          /\ outcome' = [outcome EXCEPT ![j] = out]
          /\ response' = [response EXCEPT ![j] = Status(out)]
          /\ body' = [body EXCEPT ![j] = Answered(out).body]
     ELSE /\ upstream' = [upstream EXCEPT ![j] = "settled"]
          /\ UNCHANGED <<jobState, response, queue, body, outcome, calls, startOrder>>
  /\ UNCHANGED <<reqTerm, added, bgRunning, bgAbandoned>>
  /\ UNCHANGED <<relayVars, statsVars, memVars, clientVars>>

\* faulty variant: the expiry of one job fails every running job
TimedOutAll(j) == {k \in Jobs : jobState[k] = "running"}

\* the jobs whose promise rejects when the timer of job j fires
TimedOut(j) == {j}

\* the 18 s timer of the running job that started first fires: its promise
\* rejects (throwOnTimeout), the handler answers 502 and the slot is
\* released; the upstream call itself goes on
QueueTimeout(j) ==
  /\ pc = "idle"
  /\ jobState[j] = "running"
  /\ bgRunning = 0
  /\ \A k \in Jobs : jobState[k] = "running" => j <= k
  /\ StartNext([k \in Jobs |-> IF k \in TimedOut(j) /\ jobState[k] = "running"
                               THEN "responded" ELSE jobState[k]],
               upstream, queue)
  /\ outcome' = [k \in Jobs |-> IF k \in TimedOut(j) /\ jobState[k] = "running"
                                THEN TimeoutError ELSE outcome[k]]
  /\ response' = [k \in Jobs |-> IF k \in TimedOut(j) /\ jobState[k] = "running"
                                 THEN Status(TimeoutError) ELSE response[k]]
  /\ body' = [k \in Jobs |-> IF k \in TimedOut(j) /\ jobState[k] = "running"
                             THEN Answered(TimeoutError).body ELSE body[k]]
  /\ UNCHANGED <<reqTerm, added, bgRunning, bgAbandoned>>
  /\ UNCHANGED <<relayVars, statsVars, memVars, clientVars>>

\* the upstream call of an earlier, untracked request settles in time
BackgroundSettles ==
  /\ pc = "idle"
  /\ bgRunning > 0
  /\ bgRunning' = bgRunning - 1
  /\ StartNext(jobState, upstream, queue)
  /\ UNCHANGED <<response, body, reqTerm, outcome, added, bgAbandoned>>
  /\ UNCHANGED <<relayVars, statsVars, memVars, clientVars>>

\* the timer of an earlier, untracked request fires
BackgroundTimeout ==
  /\ pc = "idle"
  /\ bgRunning > 0
  /\ bgRunning' = bgRunning - 1
  /\ bgAbandoned' = bgAbandoned + 1
  /\ StartNext(jobState, upstream, queue)
  /\ UNCHANGED <<response, body, reqTerm, outcome, added>>
  /\ UNCHANGED <<relayVars, statsVars, memVars, clientVars>>

\* the upstream call of an untracked job that timed out settles unobserved
AbandonedSettles ==
  /\ pc = "idle"
  /\ bgAbandoned > 0
  /\ bgAbandoned' = bgAbandoned - 1
  /\ UNCHANGED <<jobState, upstream, response, queue, body, reqTerm, outcome,
                 calls, added, startOrder, bgRunning>>
  /\ UNCHANGED <<relayVars, statsVars, memVars, clientVars>>

\* ------------------------------------------------------ GET /api/stats
\* faulty variant: the digits after the second decimal are cut off
toFixedTruncated(num, den) == (100 * num) \div den

\* (num / den).toFixed(2), in hundredths: the nearest one, the upper one of
\* two equally near
toFixed(num, den) == (2 * 100 * num + den) \div (2 * den)

\* the minutes of the engagement windows
INTERVALS == {1, 5, 10, 15, 30}

\* faulty variant: the window is counted in seconds
thresholdSeconds(minutes) == now - (minutes * 1000)

\* the start of the window of the last minutes, in milliseconds
threshold(minutes) == now - (minutes * 60 * 1000)

\* Array.prototype.reverse
reverse(seq) == [i \in 1..Len(seq) |-> seq[Len(seq) + 1 - i]]

\* Array.prototype.slice(-n)
lastOf(seq, n) == SubSeq(seq, Max(1, Len(seq) - n + 1), Len(seq))

\* the response of GET /api/stats; lookupPercentage and avgLookupsPerStudent
\* are given in hundredths
GetStats ==
  [lookupPercentage |-> IF totalWords > 0
                        THEN toFixed(Cardinality(uniqueWordsLookedUp) * 100, totalWords)
                        ELSE 0,
   totalWords |-> totalWords,
   totalLookups |-> totalLookups,
   uniqueWordsLookedUp |-> Cardinality(uniqueWordsLookedUp),
   connectedStudents |-> connectedStudents,
   peakStudents |-> peakStudents,
   topLookups |-> slice(sortByCount(taps), 0, TOP_LOOKUPS),
   recentLookups |-> reverse(lastOf(definitionRequests, RECENT_LOOKUPS)),
   engagementByInterval |->
     [minutes \in INTERVALS |->
        Cardinality({i \in 1..Len(lookupTimestamps) :
                       lookupTimestamps[i] >= threshold(minutes)})],
   avgLookupsPerStudent |-> IF connectedStudents > 0
                            THEN toFixed(totalLookups, connectedStudents)
                            ELSE 0]

\* Date.now(): minutes pass between two events
Advance(minutes) ==
  /\ pc = "idle"
  /\ now + minutes * 60 * 1000 <= MaxMinutes * 60 * 1000
  /\ now' = now + minutes * 60 * 1000
  /\ UNCHANGED <<totalWords, wordFrequency, totalLookups, uniqueWordsLookedUp,
                 lookupTimestamps, definitionRequests>>
  /\ UNCHANGED <<relayVars, queueVars, memVars, clientVars>>

\* ------------------------------------------- POST /api/stats/reset
\* faulty variant: the set survives the reset
clearNothing(set) == set

\* Set.prototype.clear
clear(set) == {}

resetStats ==
  /\ pc = "idle"
  /\ totalWords' = 0
  /\ totalLookups' = 0
  /\ uniqueWordsLookedUp' = clear(uniqueWordsLookedUp)
  /\ wordFrequency' = EmptyMap
  /\ lookupTimestamps' = <<>>
  /\ connectedStudents' = 0
  /\ peakStudents' = 0
  /\ definitionRequests' = <<>>
  /\ UNCHANGED now
  /\ UNCHANGED <<connState, role, isAlive, pinged, peerDead, deadTicks, closeCode,
                 audience, presenter, background, received, msgCount, lastMsg, pc, sweepMsg,
                 sweepSender, sweepIdx, deadConnections, threw>>
  /\ UNCHANGED <<queueVars, memVars, clientVars>>

\* ------------------------------------------- the registry and the broadcast
\* the caption of the broadcast specification: one word
PlainCaption == CaptionMsg(<<Word(<<"a">>)>>)

Next ==
  \/ \E c \in Conns, r \in {"presenter", "audience"} : Connection(c, r)
  \/ \E c \in Conns : PeerClose(c)
  \/ \E c \in Conns : CloseEvent(c)
  \/ \E c \in Conns : Caption(c, PlainCaption)
  \/ SweepStep
  \/ SweepEnd

Spec == Init /\ [][Next]_vars

\* ------------------------------------------- the registry and the heartbeat
HeartbeatNext ==
  \/ \E c \in Conns, r \in {"presenter", "audience"} : Connection(c, r)
  \/ \E c \in Conns : PeerClose(c)
  \/ \E c \in Conns : CloseEvent(c)
  \/ HeartbeatTick
  \/ \E c \in Conns : Pong(c)
  \/ \E c \in Conns : PeerDies(c)

HeartbeatSpec == Init /\ [][HeartbeatNext]_vars

\* ------------------------------------------------- the definition queue
QueueTerm == <<"r", "i", "v", "e", "r">>

QueueNext ==
  \/ \E j \in Jobs : Define(j, QueueTerm)
  \/ \E j \in Jobs, out \in QueueOutcomes : UpstreamSettles(j, out)
  \/ \E j \in Jobs : QueueTimeout(j)
  \/ BackgroundSettles
  \/ BackgroundTimeout
  \/ AbandonedSettles

\* all but FreeSlots slots are held by earlier requests
QueueInit ==
  /\ background = 0
  /\ MemoryInit
  /\ ClientInit
  /\ RegistryInit
  /\ QueueStart(CONCURRENCY - FreeSlots)
  /\ StatsStart(CONCURRENCY - FreeSlots)

QueueSpec == QueueInit /\ [][QueueNext]_vars

\* an upstream call that was started settles or the 18 s timer of its job
\* fires: the promise of groq.chat.completions.create and the timers of
\* p-queue are pending events of the event loop, which runs one of them
\* while there is any
QueueFairSpec ==
  /\ QueueInit
  /\ [][QueueNext]_vars
  /\ WF_vars(\/ \E j \in Jobs, out \in QueueOutcomes : UpstreamSettles(j, out)
             \/ \E j \in Jobs : QueueTimeout(j)
             \/ BackgroundSettles
             \/ BackgroundTimeout)

\* --------------------------------------- POST /define, request by request
\* req.body.term: missing, blank, and a term with spaces around it
DefineTerms ==
  { <<>>,
    <<" ", "\t">>,
    <<" ", "B", "a", "n", "k", " ">> }

DefineNext ==
  \/ \E j \in 1..MaxLookups, rawTerm \in DefineTerms : Define(j, rawTerm)
  \/ \E j \in Jobs, out \in Outcomes : UpstreamSettles(j, out)
  \/ \E j \in Jobs : QueueTimeout(j)

\* no request is under way
DefineInit ==
  /\ background = 0
  /\ MemoryInit
  /\ ClientInit
  /\ RegistryInit
  /\ QueueStart(0)
  /\ StatsStart(0)

DefineSpec == DefineInit /\ [][DefineNext]_vars

\* ------------------------------------------- the recent-requests ring
RingTerms ==
  { <<"B", "a", "n", "k">>,
    <<"r", "i", "v", "e", "r">> }

RingNext ==
  \/ \E j \in 1..MaxLookups, rawTerm \in RingTerms : Define(j, rawTerm)
  \/ \E j \in Jobs, out \in QueueOutcomes : UpstreamSettles(j, out)
  \/ \E j \in Jobs : QueueTimeout(j)
  \/ resetStats

\* no request is under way; the ring is empty or one entry short of its
\* capacity
RingInit ==
  /\ background = 0
  /\ MemoryInit
  /\ ClientInit
  /\ RegistryInit
  /\ QueueStart(0)
  /\ \E n \in {0, RING_CAPACITY - 1} : StatsStart(n)

RingSpec == RingInit /\ [][RingNext]_vars

\* ------------------------------------------------ the session statistics
\* a presenter and one audience member are connected
RegistryOpen ==
  /\ connState = [c \in Conns |-> IF c \in {1, 2} THEN "OPEN" ELSE "NONE"]
  /\ role = [c \in Conns |-> IF c = 1 THEN "presenter"
                             ELSE IF c = 2 THEN "audience" ELSE "none"]
  /\ isAlive = [c \in Conns |-> IF c \in {1, 2} THEN "true" ELSE "undefined"]
  /\ pinged = [c \in Conns |-> FALSE]
  /\ peerDead = [c \in Conns |-> FALSE]
  /\ deadTicks = [c \in Conns |-> 0]
  /\ closeCode = [c \in Conns |-> 0]
  /\ audience = <<2>>
  /\ presenter = 1
  /\ connectedStudents = 1
  /\ peakStudents = 1
  /\ received = [c \in Conns |-> <<>>]
  /\ msgCount = 0
  /\ lastMsg = NoWordsMsg
  /\ pc = "idle"
  /\ sweepMsg = 0
  /\ sweepSender = NULL
  /\ sweepIdx = 0
  /\ deadConnections = <<>>
  /\ threw = {}

\* "The bank the Bank lends", the third token with spaces around it
FiveWords ==
  <<Word(<<"T", "h", "e">>), Word(<<"b", "a", "n", "k">>),
    Word(<<" ", "t", "h", "e", " ">>), Word(<<"B", "a", "n", "k">>),
    Word(<<"l", "e", "n", "d", "s">>)>>

\* two words among a blank token and a token without text
BlankTokens == <<Word(<<"a">>), Word(<<" ">>), NoText, Word(<<"A">>)>>

\* a null token and a token with a number for its text after the first word
MalformedTokens == <<Word(<<"a">>), NullWord, Word(<<"b">>), NumberText>>

StatsMsgs ==
  { CaptionMsg(FiveWords), CaptionMsg(BlankTokens), CaptionMsg(MalformedTokens) }

StatsTerms ==
  { <<>>,
    <<"B", "a", "n", "k">>,
    <<" ", "r", "i", "v", "e", "r">> }

StatsNext ==
  \/ \E c \in Conns, msg \in StatsMsgs : Caption(c, msg)
  \/ SweepStep
  \/ SweepEnd
  \/ \E j \in 1..MaxLookups, rawTerm \in StatsTerms : Define(j, rawTerm)
  \/ resetStats

StatsInit ==
  /\ background = 0
  /\ MemoryInit
  /\ ClientInit
  /\ RegistryOpen
  /\ QueueStart(0)
  /\ StatsStart(0)

StatsSpec == StatsInit /\ [][StatsNext]_vars

\* ------------------------------------------------ the word statistics
WordsMsgs == StatsMsgs \cup {CaptionMsg(<<>>)}

\* req.body.term: blank, or a term
WordsTerms ==
  { <<" ", "\t">>,
    <<"B", "a", "n", "k">> }

WordsNext ==
  \/ \E c \in Conns, msg \in WordsMsgs : Caption(c, msg)
  \/ SweepStep
  \/ SweepEnd
  \/ \E j \in 1..MaxLookups, rawTerm \in WordsTerms : Define(j, rawTerm)
  \/ resetStats

WordsSpec == StatsInit /\ [][WordsNext]_vars

\* ------------------------------------------------------ the dashboard
\* a tap on "Bank" and a TAP message without lemma and word
DashboardTaps ==
  { TapMsg(Word(<<"B", "a", "n", "k">>), NoText), TapMsg(NoText, NoText) }

DashboardTerm == <<"r", "i", "v", "e", "r">>

DashboardNext ==
  \/ \E c \in Conns, msg \in DashboardTaps : Tap(c, msg)
  \/ \E c \in Conns : InvalidMessage(c)
  \/ \E c \in Conns : Caption(c, CaptionMsg(FiveWords))
  \/ SweepStep
  \/ SweepEnd
  \/ \E j \in 1..MaxLookups : Define(j, DashboardTerm)
  \/ resetStats

DashboardSpec == StatsInit /\ [][DashboardNext]_vars

\* -------------------------------------------------- a session, end to end
SessionTerm == <<"B", "a", "n", "k">>

SessionNext ==
  \/ \E c \in Conns : Connection(c, "audience")
  \/ \E c \in Conns : CloseEvent(c)
  \/ \E c \in Conns : c = presenter /\ Caption(c, PlainCaption)
  \/ SweepStep
  \/ SweepEnd
  \/ \E j \in 1..MaxLookups : Define(j, SessionTerm)
  \/ resetStats

\* a presenter and one audience member are connected; the recent-requests
\* ring is one entry short of its capacity
SessionInit ==
  /\ background = 0
  /\ MemoryInit
  /\ ClientInit
  /\ RegistryOpen
  /\ QueueStart(0)
  /\ StatsStart(RING_CAPACITY - 1)

SessionSpec == SessionInit /\ [][SessionNext]_vars

\* -------------------------------------------------------- the tap counters
\* taps on "bank" under three spellings, on "river", "a" and "b", and TAP
\* messages without a lemma: a blank lemma in front of a word, neither
\* lemma nor word, a number for the lemma
TapMsgs ==
  { TapMsg(Word(<<" ", "B", "a", "n", "k", " ">>), NoText),
    TapMsg(NoText, Word(<<"b", "a", "n", "k">>)),
    TapMsg(Word(<<>>), Word(<<"R", "i", "v", "e", "r">>)),
    TapMsg(Word(<<"a">>), Word(<<"b">>)),
    TapMsg(NoText, Word(<<"b">>)),
    TapMsg(Word(<<" ">>), Word(<<"b", "a", "n", "k">>)),
    TapMsg(NoText, NoText),
    TapMsg(NumberText, Word(<<"b", "a", "n", "k">>)) }

TapNext == \E c \in Conns, msg \in TapMsgs : Tap(c, msg)

TapSpec == StatsInit /\ [][TapNext]_vars

\* ------------------------------------------- messages that make the handler throw
\* a tap on "Bank" and a TAP message with a number for its lemma
MessageTaps ==
  { TapMsg(Word(<<"B", "a", "n", "k">>), NoText),
    TapMsg(NumberText, Word(<<"b", "a", "n", "k">>)) }

MessageNext ==
  \/ \E c \in Conns, msg \in {PlainCaption, CaptionMsg(MalformedTokens)} :
       Caption(c, msg)
  \/ SweepStep
  \/ SweepEnd
  \/ \E c \in Conns, msg \in MessageTaps : Tap(c, msg)
  \/ \E c \in Conns : InvalidMessage(c)

MessageSpec == StatsInit /\ [][MessageNext]_vars

\* ------------------------------------------- terms that differ in case and space
\* req.body.term: missing, three spellings of one term, and another term
LookupTerms ==
  { <<>>,
    <<"B", "a", "n", "k">>,
    <<" ", "b", "a", "n", "k", " ">>,
    <<"B", "A", "N", "K", "\t">>,
    <<"r", "i", "v", "e", "r">> }

LookupNext ==
  \/ \E j \in 1..MaxLookups, rawTerm \in LookupTerms : Define(j, rawTerm)
  \/ resetStats

LookupSpec == StatsInit /\ [][LookupNext]_vars

\* ------------------------------------------- lookups spread over time
\* lookups of one term, 1, 4, 10 or 15 minutes between two events
EngagementNext ==
  \/ \E j \in 1..MaxLookups : Define(j, QueueTerm)
  \/ \E minutes \in {1, 4, 10, 15} : Advance(minutes)
  \/ resetStats

EngagementSpec == StatsInit /\ [][EngagementNext]_vars

\* ============================================================ the client
\* the WebSocket the next "new WebSocket(WS_URL)" creates
nextSocket ==
  IF \E s \in Sockets : wsReadyState[s] = "NONE"
  THEN CHOOSE s \in Sockets :
         wsReadyState[s] = "NONE" /\ \A t \in Sockets : t < s => wsReadyState[t] # "NONE"
  ELSE NULL

\* wsRef.current is CONNECTING or OPEN
connected ==
  /\ wsRef # NULL
  /\ wsReadyState[wsRef] \in {"CONNECTING", "OPEN"}

\* connectWebSocket: nothing when wsRef.current is connecting or open,
\* otherwise a new WebSocket, kept in wsRef
connectWebSocket ==
  IF connected
  THEN UNCHANGED <<wsReadyState, wsRef>>
  ELSE /\ wsReadyState' = [wsReadyState EXCEPT ![nextSocket] = "CONNECTING"]
       /\ wsRef' = nextSocket

\* useEffect(() => { connectWebSocket(); ... }, [])
Mount ==
  /\ mounted = "initial"
  /\ mounted' = "mounted"
  /\ connectWebSocket
  /\ UNCHANGED <<established, retryCountRef, pendingTimers, reconnectTimeoutRef,
                 parts, pendingWords, displayedParts, animationTimeout>>
  /\ UNCHANGED <<relayVars, queueVars, statsVars, memVars>>

\* ws.onopen of WebSocket s
onopen(s) ==
  /\ wsReadyState[s] = "CONNECTING"
  /\ wsReadyState' = [wsReadyState EXCEPT ![s] = "OPEN"]
  /\ established' = established \cup {s}
  /\ retryCountRef' = 0
  /\ UNCHANGED <<mounted, wsRef, pendingTimers, reconnectTimeoutRef, parts,
                 pendingWords, displayedParts, animationTimeout>>
  /\ UNCHANGED <<relayVars, queueVars, statsVars, memVars>>

\* the codes of the close events: a normal close, a connection that failed
\* or was lost, a refusal by the relay
CloseCodes == {CLOSE_NORMAL, 1006, CLOSE_OVERLOAD}

\* faulty variant: the retry limit is not looked at
canRetryAlways(code, retryCount) == code # CLOSE_NORMAL

\* event.code !== 1000 && retryCountRef.current < 3
canRetry(code, retryCount) == code # CLOSE_NORMAL /\ retryCount < RETRY_LIMIT

\* ws.onclose of WebSocket s with event.code = code; a WebSocket whose
\* handshake never completed closes abnormally
onclose(s, code) ==
  /\ wsReadyState[s] \in {"CONNECTING", "OPEN", "CLOSING"}
  /\ s \notin established => code \notin {CLOSE_NORMAL, CLOSE_OVERLOAD}
  /\ wsReadyState' = [wsReadyState EXCEPT ![s] = "CLOSED"]
  /\ IF canRetry(code, retryCountRef)
     THEN /\ pendingTimers' = pendingTimers \cup {s}
          /\ reconnectTimeoutRef' = s
     ELSE UNCHANGED <<pendingTimers, reconnectTimeoutRef>>
  /\ UNCHANGED <<mounted, established, wsRef, retryCountRef, parts, pendingWords,
                 displayedParts, animationTimeout>>
  /\ UNCHANGED <<relayVars, queueVars, statsVars, memVars>>

\* the reconnect timeout set by the close of WebSocket t fires
reconnect(t) ==
  /\ t \in pendingTimers
  /\ connected \/ nextSocket # NULL
  /\ pendingTimers' = pendingTimers \ {t}
  /\ retryCountRef' = retryCountRef + 1
  /\ connectWebSocket
  /\ UNCHANGED <<mounted, established, reconnectTimeoutRef, parts, pendingWords,
                 displayedParts, animationTimeout>>
  /\ UNCHANGED <<relayVars, queueVars, statsVars, memVars>>

\* the cleanup of the effect: wsRef.current.close(1000), clearTimeout of the
\* animation and of the reconnect timeout the refs hold
cleanup ==
  /\ mounted = "mounted"
  /\ mounted' = "unmounted"
  /\ wsReadyState' = IF connected THEN [wsReadyState EXCEPT ![wsRef] = "CLOSING"]
                   ELSE wsReadyState
  /\ pendingTimers' = pendingTimers \ {reconnectTimeoutRef}
  /\ UNCHANGED <<established, wsRef, retryCountRef, reconnectTimeoutRef, parts,
                 pendingWords, displayedParts, animationTimeout>>
  /\ UNCHANGED <<relayVars, queueVars, statsVars, memVars>>

\* words.some(word => word.id === newWord.id)
existsIn(words, newWord) == \E i \in 1..Len(words) : words[i].id = newWord.id

\* parts as ws.onmessage sees it: connectWebSocket is memoised with
\* useCallback(..., []), so the handler keeps the parts of the first render,
\* useState([])
partsOfFirstRender == <<>>

\* animateNextWord with pending in pendingWordsRef.current: the first pending
\* word moves to displayedParts and the timeout is set again; with nothing
\* pending the ref is cleared
animateNextWord(pending) ==
  IF pending = <<>>
  THEN /\ animationTimeout' = FALSE
       /\ pendingWords' = pending
       /\ UNCHANGED displayedParts
  ELSE /\ pendingWords' = Tail(pending)
       /\ displayedParts' = Append(displayedParts, Head(pending))
       /\ animationTimeout' = TRUE

\* startWordAnimation: returns when an animation is under way
startWordAnimation(pending) ==
  IF animationTimeout
  THEN /\ pendingWords' = pending
       /\ UNCHANGED <<displayedParts, animationTimeout>>
  ELSE animateNextWord(pending)

\* ws.onmessage of WebSocket s with a CAPTION message of these words
onmessage(s, words) ==
  /\ mounted = "mounted"
  /\ wsReadyState[s] = "OPEN"
  /\ Len(parts) + Len(words) <= MaxParts
  /\ LET filteredWords ==
           SelectSeq(words, LAMBDA newWord :
                              /\ ~existsIn(partsOfFirstRender, newWord)
                              /\ ~existsIn(pendingWords, newWord))
     IN IF Len(filteredWords) > 0
        THEN /\ parts' = parts \o filteredWords
             /\ startWordAnimation(pendingWords \o filteredWords)
        ELSE UNCHANGED <<parts, pendingWords, displayedParts, animationTimeout>>
  /\ UNCHANGED <<mounted, wsReadyState, established, wsRef, retryCountRef,
                 pendingTimers, reconnectTimeoutRef>>
  /\ UNCHANGED <<relayVars, queueVars, statsVars, memVars>>

\* the animation timeout fires
AnimationTimeout ==
  /\ mounted = "mounted"
  /\ animationTimeout
  /\ animateNextWord(pendingWords)
  /\ UNCHANGED parts
  /\ UNCHANGED <<mounted, wsReadyState, established, wsRef, retryCountRef,
                 pendingTimers, reconnectTimeoutRef>>
  /\ UNCHANGED <<relayVars, queueVars, statsVars, memVars>>

\* the CAPTION messages the relay forwards: words 1 and 2, alone and together
ClientMsgs ==
  { <<[id |-> 1]>>,
    <<[id |-> 2]>>,
    <<[id |-> 1], [id |-> 2]>> }

ClientNext ==
  \/ Mount
  \/ \E s \in Sockets : onopen(s)
  \/ \E s \in Sockets, code \in CloseCodes : onclose(s, code)
  \/ \E t \in Sockets : reconnect(t)
  \/ cleanup
  \/ \E s \in Sockets, words \in ClientMsgs : onmessage(s, words)
  \/ AnimationTimeout

ClientSpec == StatsInit /\ [][ClientNext]_vars

\* =================================================================== claims
Last(q) == q[Len(q)]

\* the step handles the 'connection' event of ws c
Connects(c) == connState[c] = "NONE" /\ connState'[c] # "NONE"

\* connections whose readyState is OPEN, the background ones included
openCount == Cardinality({c \in Conns : connState[c] = "OPEN"}) + background

\* the current sweep has sent its message to c
SentInSweep(c) == received[c] # <<>> /\ Last(received[c]) = sweepMsg

\* C1 as stated: handling any new connection with role=presenter leaves that
\* connection as the one registered presenter, and the presenter registered
\* before (if any) has been sent a close.  Refuted by a connection that is
\* refused for overload.
C1_AnyPresenterConnectionRegisters ==
  [][\A c \in Conns : (Connects(c) /\ role'[c] = "presenter") =>
        /\ presenter' = c
        /\ (presenter # NULL => connState'[presenter] # "OPEN")]_vars

\* C1 as amended: handling a new connection with role=presenter that is not
\* refused for overload leaves that connection as the one registered
\* presenter, and the presenter registered before (if any) is no longer OPEN:
\* a close has been sent to it.
C1_AcceptedPresenterReplaces ==
  [][\A c \in Conns :
        (Connects(c) /\ role'[c] = "presenter" /\ closeCode'[c] # CLOSE_OVERLOAD) =>
          /\ presenter' = c
          /\ connState'[c] = "OPEN"
          /\ (presenter # NULL => connState'[presenter] # "OPEN")]_vars

\* C1 witness: a second presenter holds the slot and the first one was closed
\* with code 1000.
C1_Witness ==
  \E c, d \in Conns :
    /\ c # d
    /\ presenter = c
    /\ role[d] = "presenter"
    /\ closeCode[d] = CLOSE_NORMAL
    /\ connState[d] = "CLOSING_LOCAL"

\* C2 as stated: a CAPTION reaches audience connections only when its sender
\* is the registered presenter.  Refuted: the message handler never looks at
\* who sent the message.
C2_OnlyPresenterCaptionsDelivered ==
  \A c \in Conns : (pc = "sweep" /\ SentInSweep(c)) => sweepSender = presenter

\* C3: when the sweep of a CAPTION broadcast has run through the audience,
\* every audience connection that was OPEN and whose own send did not throw
\* has been sent the message, whatever happened to the connections visited
\* before it.
C3_OpenConnectionsReceive ==
  /\ pc = "sweep" => sweepIdx <= Len(audience) + 1
  /\ \A i \in 1..Len(audience) :
       (pc = "sweep" /\ (i < sweepIdx \/ sweepIdx > Len(audience))) =>
         ((readyState(audience[i]) = "OPEN" /\ audience[i] \notin threw)
            => SentInSweep(audience[i]))

\* C3 witness: a finished sweep in which a connection that was closing, and
\* one whose send threw, were visited before a connection that got the
\* message.
C3_Witness ==
  /\ pc = "sweep"
  /\ sweepIdx > Len(audience)
  /\ \E i, j \in 1..Len(audience) :
       /\ i < j
       /\ (readyState(audience[i]) # "OPEN" \/ audience[i] \in threw)
       /\ SentInSweep(audience[j])

\* C4: while the sweep runs the audience set does not change; the step that
\* ends it removes exactly the connections that were not OPEN or whose send
\* threw, and every connection the message was sent to stays a member.
C4_CleanupAfterSweep ==
  [][/\ (pc = "sweep" /\ pc' = "sweep") => audience' = audience
     /\ (pc = "sweep" /\ pc' = "idle") =>
          /\ SeqToSet(audience') =
               {c \in SeqToSet(audience) : connState[c] = "OPEN" /\ c \notin threw}
          /\ \A c \in SeqToSet(audience) : SentInSweep(c) => c \in SeqToSet(audience')]_vars

\* C4 witness: a sweep is over, it has dropped a closing connection from the
\* audience and kept one that got the message.
C4_Witness ==
  /\ pc = "idle"
  /\ msgCount >= 1
  /\ \E c, d \in Conns :
       /\ role[c] = "audience" /\ connState[c] = "CLOSING_PEER"
       /\ c \notin SeqToSet(audience)
       /\ d \in SeqToSet(audience) /\ received[d] # <<>>

\* C5: every connection is sent the CAPTION messages in the order in which the
\* server received them, each at most once and one per send.
C5_DeliveryInOrder ==
  \A c \in Conns : \A i, j \in 1..Len(received[c]) :
    i < j => received[c][i] < received[c][j]

\* C5 witness: a connection has been sent two messages.
C5_Witness == \E c \in Conns : Len(received[c]) >= 2

\* C6 as stated: a new connection is refused with 1013 exactly when the
\* number of connections already open is at or above MAX_CONNECTIONS, so the
\* first 100 are accepted.  Refuted: the 100th is refused.
C6_RefusedExactlyAtCeiling ==
  [][\A c \in Conns : Connects(c) =>
        (closeCode'[c] = CLOSE_OVERLOAD <=> openCount >= MAX_CONNECTIONS)]_vars

\* C7: a connection refused for overload is in no registry and has been sent
\* no caption, and the step that refuses it changes neither the audience set,
\* nor the presenter slot, nor connectedStudents, nor peakStudents.
C7_RefusedNeverRegistered ==
  [][\A c \in Conns : closeCode'[c] = CLOSE_OVERLOAD =>
        /\ c \notin SeqToSet(audience')
        /\ presenter' # c
        /\ received'[c] = <<>>
        /\ Connects(c) =>
             /\ audience' = audience
             /\ presenter' = presenter
             /\ connectedStudents' = connectedStudents
             /\ peakStudents' = peakStudents]_vars

\* C7 witness: a presenter connection was refused while another presenter is
\* registered, and a caption broadcast has since run through the audience.
C7_Witness ==
  /\ pc = "sweep"
  /\ sweepIdx > Len(audience)
  /\ Len(audience) >= 1
  /\ \E c \in Conns :
       /\ closeCode[c] = CLOSE_OVERLOAD
       /\ connState[c] = "CLOSING_LOCAL"
       /\ role[c] = "presenter"
       /\ presenter \notin {NULL, c}

\* C8: at a heartbeat tick every connection with an unanswered ping is
\* terminated, is out of the audience set and does not hold the presenter
\* slot; every other connection is marked not alive and pinged.
C8_HeartbeatTick ==
  [][HeartbeatTick => \A c \in clients :
        IF pinged[c]
        THEN /\ connState'[c] = "TERMINATED"
             /\ c \notin SeqToSet(audience')
             /\ presenter' # c
        ELSE /\ isAlive'[c] = "false"
             /\ pinged'[c]
             /\ connState'[c] = connState[c]]_vars

\* C8 witness: a tick has terminated the presenter, cleared the slot, and
\* pinged an open audience connection.
C8_Witness ==
  \E c, d \in Conns :
    /\ role[c] = "presenter" /\ connState[c] = "TERMINATED" /\ closeCode[c] = 0
    /\ presenter = NULL
    /\ d \in SeqToSet(audience) /\ connState[d] = "OPEN"
    /\ isAlive[d] = "false" /\ pinged[d]

\* C9 as stated: an audience connection whose socket died silently is out of
\* the audience set within one heartbeat interval, that is once one tick has
\* passed since it died.  Refuted: the first tick only pings it.
C9_RemovedWithinOneInterval ==
  \A c \in Conns : (peerDead[c] /\ deadTicks[c] >= 1) => c \notin SeqToSet(audience)

\* C9 as amended: an audience connection whose socket died silently is out of
\* the audience set once two heartbeat ticks have passed since it died, that
\* is within two heartbeat intervals.
C9_RemovedWithinTwoIntervals ==
  \A c \in Conns : (peerDead[c] /\ deadTicks[c] >= 2) => c \notin SeqToSet(audience)

\* C9 witness: a dead audience connection was terminated by the second tick
\* after its death.
C9_Witness ==
  \E c \in Conns :
    /\ peerDead[c] /\ deadTicks[c] = 2
    /\ role[c] = "audience" /\ connState[c] = "TERMINATED"
    /\ c \notin SeqToSet(audience)

\* C10 as stated: the upstream calls started and not yet settled never number
\* more than the concurrency limit.  Refuted: a job that times out gives its
\* slot to the next job while its own call is still under way.
C10_InFlightWithinConcurrency == inFlightCount <= CONCURRENCY

\* C11: a /define request that arrives while all slots are taken is not
\* answered for that reason: it waits, unanswered and without an upstream
\* call, and only while the queue is saturated; the upstream calls are
\* started in submission order, so no later request is started while an
\* earlier one still waits.
C11_WaitingJobsStartInOrder ==
  /\ \A j \in Jobs : jobState[j] = "queued" =>
       /\ response[j] = 0
       /\ upstream[j] = "notStarted"
       /\ j \in SeqToSet(queue)
       /\ \A k \in Jobs : k > j => upstream[k] = "notStarted"
  /\ \A j \in Jobs : response[j] # 0 => upstream[j] # "notStarted"
  /\ queue # <<>> => pendingCount = CONCURRENCY
  /\ \A i, k \in 1..Len(startOrder) : i < k => startOrder[i].job < startOrder[k].job
  /\ \A i, k \in 1..Len(queue) : i < k => queue[i] < queue[k]

\* C11 witness: two requests that had to wait have both been started, a third
\* one still waits.
C11_Witness ==
  /\ queue # <<>>
  /\ \E i, k \in 1..Len(startOrder) :
       /\ i < k
       /\ startOrder[i].waited
       /\ startOrder[k].waited

\* the step is the expiry of the queue timeout of job j: the job is answered
\* while its upstream call is still under way
TimesOut(j) ==
  /\ jobState[j] = "running"
  /\ jobState'[j] = "responded"
  /\ upstream[j] = "inFlight"
  /\ upstream'[j] = "inFlight"

\* C12: when the queue timeout of a job expires its request is answered 502
\* with an error body, and nothing else changes for any other job: answers
\* given stay as they are, running jobs keep running with their calls under
\* way, abandoned calls stay under way, and of the waiting jobs only the
\* first leaves the queue, to take the freed slot.
C12_TimeoutAnswers502Alone ==
  [][\A j \in Jobs : TimesOut(j) =>
        /\ response'[j] = 502
        /\ body'[j] = ErrorBody
        /\ bgRunning' = bgRunning
        /\ bgAbandoned' = bgAbandoned
        /\ \A k \in Jobs \ {j} :
             /\ response'[k] = response[k]
             /\ body'[k] = body[k]
             /\ outcome'[k] = outcome[k]
             /\ upstream[k] = "inFlight" => upstream'[k] = "inFlight"
             /\ jobState[k] = "running" => jobState'[k] = "running"
             /\ jobState[k] = "responded" => jobState'[k] = "responded"
             /\ jobState[k] = "queued" =>
                  \/ jobState'[k] = "queued" /\ upstream'[k] = "notStarted"
                  \/ k = Head(queue) /\ jobState'[k] = "running"]_vars

\* C12 witness: a job was answered 502 by its timeout while its call is
\* still under way, a later job has been answered 200, and a third one runs.
C12_Witness ==
  \E j, k, l \in Jobs :
    /\ response[j] = 502
    /\ outcome[j] = TimeoutError
    /\ upstream[j] = "inFlight"
    /\ k > j
    /\ response[k] = 200
    /\ jobState[l] = "running"

\* the text chatGroq returned and its cleaned form, worked out once for every
\* outcome
Texts ==
  {<<out, trim(out.content), Clean(trim(out.content))>> :
     out \in Outcomes \cup {TimeoutError, Pending}}

\* content.trim() of the outcome
OutputText(out) == (CHOOSE entry \in Texts : entry[1] = out)[2]

\* the cleaned text of the outcome
CleanedText(out) == (CHOOSE entry \in Texts : entry[1] = out)[3]

\* the upstream call of request j threw, timed out, returned empty text, or
\* its cleaned text is shorter than 10 characters
Failed(j) ==
  \/ outcome[j].kind \in {"throws", "timeout"}
  \/ OutputText(outcome[j]) = <<>>
  \/ Len(CleanedText(outcome[j])) < MIN_LENGTH

\* the upstream output of request j is "skip" in some letter case
SaidSkip(j) ==
  /\ outcome[j].kind = "content"
  /\ toLowerCase(OutputText(outcome[j])) = SKIP

C14_SkipAnswered200 ==
  \A j \in Jobs : (response[j] # 0 /\ SaidSkip(j)) =>
    /\ response[j] = 200
    /\ body[j].kind = "definition"
    /\ body[j].definition = SKIP
    /\ body[j].cached = FALSE
    /\ Len(OutputText(outcome[j])) < MIN_LENGTH

\* C14 witness: the output " SKIP" followed by a line feed was answered 200.
C14_Witness ==
  \E j \in Jobs :
    /\ outcome[j] = Content(<<" ", "S", "K", "I", "P", "\n">>)
    /\ response[j] = 200
    /\ body[j].definition = SKIP

C19_RingHoldsMostRecent ==
  /\ Len(definitionRequests) <= RING_CAPACITY
  /\ Len(definitionRequests) = Min(totalLookups, RING_CAPACITY)
  /\ \A i \in 1..Len(definitionRequests) :
       definitionRequests[i].n = totalLookups - Len(definitionRequests) + i

\* C19 witness: more than 100 lookups were accepted, the ring is full and
\* its oldest entry is no longer the first lookup.
C19_Witness ==
  /\ totalLookups > RING_CAPACITY + 1
  /\ Len(definitionRequests) = RING_CAPACITY
  /\ definitionRequests[1].n > 2
  /\ definitionRequests[RING_CAPACITY].term # PriorTerm
  /\ definitionRequests[RING_CAPACITY].n = totalLookups

\* requests accepted so far: each one added a job
acceptedCount == Cardinality({j \in Jobs : added[j] > 0})

\* C16: the number of unique looked-up terms never exceeds totalLookups,
\* whatever the interleaving of /define requests, caption messages and
\* resets.
C16_UniqueAtMostTotal == Cardinality(uniqueWordsLookedUp) <= totalLookups

\* C16 witness: after a reset that wiped at least one lookup, and after a
\* caption, one term has been looked up twice.
C16_Witness ==
  /\ Cardinality(uniqueWordsLookedUp) = 1
  /\ totalLookups = 2
  /\ acceptedCount > totalLookups
  /\ totalWords > 0

\* C17 as stated: GET /api/stats reports lookupPercentage = 100 x unique /
\* totalWords exactly (here in hundredths), and 0 when totalWords is 0.
\* Refuted by 1 unique term over 3 words: 33.33 is reported.
C17_ExactPercentage ==
  /\ totalWords = 0 => GetStats.lookupPercentage = 0
  /\ totalWords > 0 =>
       GetStats.lookupPercentage * totalWords =
         100 * 100 * Cardinality(uniqueWordsLookedUp)

\* C17 as amended: GET /api/stats reports totalWords and the number of
\* unique looked-up terms as they are, and for lookupPercentage the multiple
\* of 0.01 nearest to 100 x unique / totalWords (here in hundredths), 0 when
\* totalWords is 0; with 5 words and 2 unique terms that is 40.
C17_RoundedPercentage ==
  LET unique == Cardinality(uniqueWordsLookedUp)
      reported == GetStats.lookupPercentage
  IN /\ GetStats.totalWords = totalWords
     /\ GetStats.uniqueWordsLookedUp = unique
     /\ totalWords = 0 => reported = 0
     /\ totalWords > 0 =>
          /\ 2 * (reported * totalWords - 100 * 100 * unique) <= totalWords
          /\ 2 * (reported * totalWords - 100 * 100 * unique) > - totalWords
     /\ (totalWords = 5 /\ unique = 2) => reported = 40 * 100

\* C17 witness: one caption of five words, then two lookups of distinct
\* terms: 40 is reported.
C17_Witness ==
  /\ msgCount = 1
  /\ lastMsg = CaptionMsg(FiveWords)
  /\ pc = "idle"
  /\ GetStats.totalWords = 5
  /\ totalLookups = 2
  /\ GetStats.uniqueWordsLookedUp = 2
  /\ GetStats.lookupPercentage = 40 * 100

\* the tokens of msg that are counted: those before the first malformed one
\* whose trimmed text is not empty
countedTokens(msg) ==
  IF ~msg.isArray THEN {}
  ELSE {i \in 1..Len(msg.words) :
          /\ \A k \in 1..i : ~Malformed(msg.words[k])
          /\ trim(msg.words[i].text) # <<>>}

\* wordFrequency.get(word) || 0
frequency(freq, word) == IF word \in DOMAIN freq THEN freq[word] ELSE 0

RECURSIVE sumOver(_, _)
sumOver(freq, words) ==
  IF words = {} THEN 0
  ELSE LET word == CHOOSE word \in words : TRUE
       IN freq[word] + sumOver(freq, words \ {word})

\* the step handles a CAPTION message (lastMsg' is that message)
HandlesCaption == msgCount' = msgCount + 1

\* C18 as stated: handling a CAPTION message increments totalWords by the
\* number of its tokens.  Refuted by a token whose text is blank or missing
\* (it is skipped) and by a malformed token (the loop ends there).
C18_EveryTokenCounted ==
  [][HandlesCaption => totalWords' = totalWords + Len(lastMsg'.words)]_vars

\* C18 as amended: handling a CAPTION message increments totalWords by the
\* number of its tokens that have a non-blank text and precede the first
\* malformed token, and increments the frequency of the trimmed, lower-cased
\* text of each of these tokens by one; after every step (as at the start,
\* where both are 0) totalWords equals the sum of all frequencies.
C18_CountedTokens ==
  [][/\ totalWords' = sumOver(wordFrequency', DOMAIN wordFrequency')
     /\ HandlesCaption =>
          LET counted == countedTokens(lastMsg')
              wordAt(i) == toLowerCase(trim(lastMsg'.words[i].text))
          IN /\ totalWords' = totalWords + Cardinality(counted)
             /\ DOMAIN wordFrequency' = DOMAIN wordFrequency \cup {wordAt(i) : i \in counted}
             /\ \A word \in DOMAIN wordFrequency' :
                  wordFrequency'[word] = frequency(wordFrequency, word)
                    + Cardinality({i \in counted : wordAt(i) = word})]_vars

\* C18 witness: the five-word caption and the caption with blank tokens have
\* been handled: "the" and "bank" were counted twice each under one
\* spelling, the blank tokens not at all.
C18_Witness ==
  /\ totalWords = 7
  /\ frequency(wordFrequency, <<"t", "h", "e">>) = 2
  /\ frequency(wordFrequency, <<"b", "a", "n", "k">>) = 2
  /\ frequency(wordFrequency, <<"a">>) = 2
  /\ <<>> \notin DOMAIN wordFrequency

\* the step belongs to the handling of a CAPTION with an empty words list
HandlesEmptyCaption ==
  /\ lastMsg' = CaptionMsg(<<>>)
  /\ HandlesCaption \/ pc = "sweep"

\* the step is a /define request with an empty term
EmptyTermDefine ==
  \E j \in Jobs :
    /\ jobState[j] = "none"
    /\ jobState'[j] # "none"
    /\ trim(reqTerm'[j]) = <<>>

\* C20 as stated: a CAPTION with an empty words list and a /define with an
\* empty term leave every statistics field unchanged.  Refuted by an empty
\* CAPTION after a reset, or one whose sweep drops a connection: it sets
\* connectedStudents to the audience size.
C20_NothingChanges ==
  [][(HandlesEmptyCaption \/ EmptyTermDefine) =>
        /\ UNCHANGED <<totalWords, totalLookups, uniqueWordsLookedUp, wordFrequency,
                       lookupTimestamps, definitionRequests>>
        /\ UNCHANGED <<connectedStudents, peakStudents>>]_vars

\* C20 as amended: a CAPTION with an empty words list and a /define with an
\* empty term leave totalWords, totalLookups, the unique set, the word
\* frequencies, the history and the recent ring unchanged; the /define also
\* leaves connectedStudents and peakStudents unchanged, while the CAPTION,
\* like every CAPTION, ends by setting connectedStudents to the audience
\* size and peakStudents to the larger of itself and that size.
C20_CountsUnchanged ==
  [][/\ (HandlesEmptyCaption \/ EmptyTermDefine) =>
          UNCHANGED <<totalWords, totalLookups, uniqueWordsLookedUp, wordFrequency,
                      lookupTimestamps, definitionRequests>>
     /\ EmptyTermDefine => UNCHANGED <<connectedStudents, peakStudents>>
     /\ (HandlesEmptyCaption /\ pc = "sweep" /\ pc' = "idle") =>
          /\ connectedStudents' = audienceSize(audience', background)
          /\ peakStudents' = Max(peakStudents, connectedStudents')
     /\ (HandlesEmptyCaption /\ pc' = "sweep") =>
          UNCHANGED <<connectedStudents, peakStudents>>]_vars

\* C20 witness: with words and lookups on record, a /define with a blank
\* term was answered 400 and an empty CAPTION has been handled to its end.
C20_Witness ==
  /\ totalWords > 0
  /\ totalLookups > 0
  /\ \E j \in Jobs : response[j] = 400 /\ \E k \in Jobs : k < j /\ added[k] = 1
  /\ lastMsg = CaptionMsg(<<>>)
  /\ msgCount = 2
  /\ pc = "idle"

\* the zero state of the GET /api/stats response
ZeroStats ==
  [lookupPercentage |-> 0,
   totalWords |-> 0,
   totalLookups |-> 0,
   uniqueWordsLookedUp |-> 0,
   connectedStudents |-> 0,
   peakStudents |-> 0,
   topLookups |-> <<>>,
   recentLookups |-> <<>>,
   engagementByInterval |-> [minutes \in INTERVALS |-> 0],
   avgLookupsPerStudent |-> 0]

\* C21: right after POST /api/stats/reset, GET /api/stats returns the zero
\* state for every field, topLookups included.  Refuted by a reset that
\* follows a TAP: topLookups is read from taps, which resetStats leaves alone.
C21_ResetGivesZeroState == [][resetStats => GetStats' = ZeroStats]_vars

\* the step leaves the counters of words and lookups, the peak and the
\* lengths of the history and of the ring at least as large as they were
CountersNotBelow ==
  /\ totalWords' >= totalWords
  /\ totalLookups' >= totalLookups
  /\ Cardinality(uniqueWordsLookedUp') >= Cardinality(uniqueWordsLookedUp)
  /\ \A word \in DOMAIN wordFrequency :
       /\ word \in DOMAIN wordFrequency'
       /\ wordFrequency'[word] >= wordFrequency[word]
  /\ Len(lookupTimestamps') >= Len(lookupTimestamps)
  /\ Len(definitionRequests') >= Len(definitionRequests)
  /\ peakStudents' >= peakStudents

\* C22 as stated: in every step other than a reset no statistics field
\* decreases, connectedStudents included.  Refuted by the close of an
\* audience connection: connectedStudents becomes the smaller audience size.
C22_NothingDecreases ==
  [][~resetStats => (CountersNotBelow /\ connectedStudents' >= connectedStudents)]_vars

\* C22 as amended: in every step other than a reset, totalWords,
\* totalLookups, the unique-term count, every per-term frequency, the
\* history length, the ring length and peakStudents do not decrease;
\* connectedStudents decreases only when a close handler or the end of a
\* CAPTION broadcast sets it to the audience size.
C22_OnlyConnectedDecreases ==
  [][~resetStats =>
       /\ CountersNotBelow
       /\ connectedStudents' < connectedStudents =>
            /\ connectedStudents' = audienceSize(audience', background)
            /\ \/ \E c \in Conns : connState[c] # "CLOSED" /\ connState'[c] = "CLOSED"
               \/ pc = "sweep" /\ pc' = "idle"]_vars

\* C22 witness: the ring is full and has taken a further lookup, a caption
\* was counted, and the audience count has fallen below its peak with no
\* reset in between.
C22_Witness ==
  /\ Len(definitionRequests) = RING_CAPACITY
  /\ totalLookups > RING_CAPACITY
  /\ totalWords > 0
  /\ peakStudents = 2
  /\ connectedStudents = 0
  /\ audience = <<>>

tapsOf(map, term) ==
  IF \E i \in 1..Len(map) : map[i].term = term
  THEN map[CHOOSE i \in 1..Len(map) : map[i].term = term].count
  ELSE 0

\* the keys of the map
termsOf(map) == {map[i].term : i \in 1..Len(map)}

\* C24: a TAP message whose lemma-or-word is a string with a non-empty
\* lower-cased, trimmed form increments the tap counter of that form by
\* exactly one and no other counter; a TAP whose term is empty (or not a
\* string) changes nothing.  GET /api/top returns min(3, number of terms)
\* entries of the tap counters, no term twice, in non-increasing count order,
\* and no term left out has a higher count than a term returned.
C24_TapCountsAndTop ==
  /\ [](/\ Len(GetTop) = Min(TOP_TAPS, Cardinality(termsOf(taps)))
        /\ \A i \in 1..Len(GetTop) :
             /\ GetTop[i].count = tapsOf(taps, GetTop[i].term)
             /\ GetTop[i].count >= 1
             /\ \A k \in 1..Len(GetTop) : k > i =>
                  /\ GetTop[i].count >= GetTop[k].count
                  /\ GetTop[i].term # GetTop[k].term
             /\ \A term \in termsOf(taps) \ {GetTop[k].term : k \in 1..Len(GetTop)} :
                  tapsOf(taps, term) <= GetTop[i].count)
  /\ [][\A c \in Conns, msg \in TapMsgs : Tap(c, msg) =>
          LET value == lemmaOrWord(msg)
              term == trim(toLowerCase(value.text))
          IN IF value.kind = "text" /\ term # <<>>
             THEN /\ tapsOf(taps', term) = tapsOf(taps, term) + 1
                  /\ termsOf(taps') = termsOf(taps) \cup {term}
                  /\ \A other \in termsOf(taps) \ {term} :
                       tapsOf(taps', other) = tapsOf(taps, other)
             ELSE taps' = taps]_vars

\* C24 witness: after five TAP messages four terms are counted, the one
\* tapped last twice: it leads the top three and the third term tapped is
\* left out.
C24_Witness ==
  /\ tapCount = 5
  /\ Len(taps) = 4
  /\ taps[4].count = 2
  /\ GetTop = <<taps[4], taps[1], taps[2]>>
  /\ taps[1].term = <<"b", "a", "n", "k">>

\* the step handles a TAP message
HandlesTap == tapCount' = tapCount + 1

\* C25: a TAP message leaves every session-statistics field and the audience
\* set unchanged, every other step (a /define request and a CAPTION message
\* among them) leaves the tap counters unchanged, and the response of GET
\* /api/stats does not depend on the tap counters.  Refuted by the first
\* TAP with a lemma: topLookups of GET /api/stats changes with it.
C25_TapsApartFromStats ==
  [][/\ HandlesTap =>
          /\ UNCHANGED <<statsVars, connectedStudents, peakStudents, audience>>
          /\ GetStats' = GetStats
     /\ ~HandlesTap => taps' = taps]_vars

\* the step handles a message that is not JSON
HandlesInvalid == invalidCount' = invalidCount + 1

\* after the step ws c is closed or closing and registered nowhere
Dropped(c) ==
  /\ connState'[c] # "OPEN"
  /\ c \notin SeqToSet(audience')
  /\ presenter' # c

\* C26: a connection that sends a message that is not valid JSON, or whose
\* send fails during a broadcast, is closed and unregistered from the
\* audience set and the presenter slot.  Refuted twice: the sender of an
\* unparseable message stays open and registered, and a connection whose send
\* threw is deleted from the audience but never closed.
C26_ViolatorsDropped ==
  [][/\ HandlesInvalid => \E c \in Conns : CanSend(c) /\ Dropped(c)
     /\ (pc = "sweep" /\ pc' = "idle") => \A c \in threw : Dropped(c)]_vars

\* the 'close' event of ws c is emitted in this step
Closes(c) == connState[c] # "CLOSED" /\ connState'[c] = "CLOSED"

\* C27: when a connection closes it is no longer in the audience set, and
\* the presenter slot is cleared if the closing connection is the registered
\* presenter and keeps its value otherwise: the late close of a superseded
\* presenter leaves the newer presenter in the slot.
C27_CloseUnregistersOnlyItself ==
  [][\A c \in Conns : Closes(c) =>
       /\ c \notin SeqToSet(audience')
       /\ SeqToSet(audience') = SeqToSet(audience) \ {c}
       /\ presenter' = (IF presenter = c THEN NULL ELSE presenter)]_vars

\* C27 witness: a presenter was superseded and closed with 1000, its close
\* event has been handled, and the newer presenter is open and still holds
\* the slot.
C27_Witness ==
  \E c, d \in Conns :
    /\ c < d
    /\ role[c] = "presenter"
    /\ role[d] = "presenter"
    /\ closeCode[c] = CLOSE_NORMAL
    /\ connState[c] = "CLOSED"
    /\ connState[d] = "OPEN"
    /\ presenter = d

\* C28: after every completed handler (no broadcast under way)
\* connectedStudents equals the size of the audience set.  Refuted by a
\* heartbeat tick that removes a stale audience connection: the handler
\* deletes it from the audience and leaves connectedStudents as it was.
C28_CountEqualsAudience ==
  pc = "idle" => connectedStudents = audienceSize(audience, background)

\* C29: peakStudents is never smaller than connectedStudents.  Refuted by a
\* reset while two students are connected, followed by the close of one of
\* them: the close handler sets connectedStudents to 1 and the peak stays 0.
C29_PeakAtLeastConnected == peakStudents >= connectedStudents

\* the tokens of msg that carry a word: well-formed, with a non-blank text
wordTokens(msg) ==
  IF ~msg.isArray THEN {}
  ELSE {i \in 1..Len(msg.words) :
          ~Malformed(msg.words[i]) /\ trim(msg.words[i].text) # <<>>}

\* C30: a CAPTION message is handled atomically: either all of its words are
\* counted and the handler goes on to broadcast it, or the statistics stay as
\* they were and it is not broadcast.  Refuted by a words list with a word
\* in front of a null token: the word is counted, then the loop throws and
\* the message is never broadcast.
C30_CountedIffBroadcast ==
  [][HandlesCaption =>
       \/ /\ pc' = "sweep"
          /\ totalWords' = totalWords + Cardinality(wordTokens(lastMsg'))
       \/ /\ pc' = "idle"
          /\ UNCHANGED <<totalWords, wordFrequency>>]_vars

\* the step handles a message whose handling throws: a message that is not
\* JSON or is null, a CAPTION with a null token or a text that is no string,
\* a TAP whose lemma is no string
HandlerThrows ==
  \/ HandlesInvalid
  \/ /\ HandlesCaption
     /\ \E i \in 1..Len(lastMsg'.words) : lastMsg'.words[i].kind \in {"null", "number"}
  \/ \E c \in Conns, msg \in MessageTaps :
       /\ lemmaOrWord(msg).kind = "number"
       /\ Tap(c, msg)

\* C31: an exception raised while a message is handled is caught inside the
\* handler: the step leaves the audience set, the presenter slot and the tap
\* counters as they were, no connection is closed by it, and the server is
\* ready for the next message of any connection.
C31_ExceptionsContained ==
  [][HandlerThrows =>
       /\ UNCHANGED <<audience, presenter, taps>>
       /\ UNCHANGED <<connState, closeCode, peerDead>>
       /\ pc' = "idle"]_vars

\* C31 witness: an unparseable message and a TAP were handled, the first
\* caption had a null token and was dropped, and the caption after it has
\* reached the audience; a tap is counted.
C31_Witness ==
  /\ invalidCount = 1
  /\ tapCount >= 2
  /\ taps = <<[term |-> <<"b", "a", "n", "k">>, count |-> 1]>>
  /\ msgCount = 2
  /\ lastMsg = PlainCaption
  /\ totalWords = 2
  /\ received[2] = <<2>>
  /\ pc = "idle"

\* C32: every POST /define with a non-empty term is answered in the end,
\* also when all 8 slots are taken and the request has to wait, provided
\* every started upstream call settles or its 18 s timer fires.
C32_EveryLookupAnswered ==
  \A j \in Jobs : (jobState[j] \in {"queued", "running"}) ~> (response[j] # 0)

\* C32 witness: a request that found all slots taken and waited in the queue
\* has been answered.
C32_Witness ==
  \E i \in 1..Len(startOrder) :
    /\ startOrder[i].waited
    /\ response[startOrder[i].job] # 0
    /\ added[startOrder[i].job] = 1

\* the step accepts request j: its term is not empty
Accepts(j) == jobState[j] = "none" /\ jobState'[j] \in {"queued", "running"}

\* the step answers request j with 200 or 502
Answers(j) == response[j] = 0 /\ response'[j] \in {200, 502}

\* C33: a lookup is recorded when it is accepted, before the upstream call:
\* the step that accepts a request adds one to totalLookups, the step that
\* answers it with 200 or 502 adds nothing, so totalLookups always equals
\* the length of the timestamp history and the ring of recent requests holds
\* min(totalLookups, 100) entries.
C33_RecordedOnAcceptance ==
  /\ [](/\ totalLookups = Len(lookupTimestamps)
        /\ Len(definitionRequests) = Min(totalLookups, RING_CAPACITY))
  /\ [][\A j \in Jobs :
          /\ Accepts(j) => /\ totalLookups' = totalLookups + 1
                           /\ Len(lookupTimestamps') = Len(lookupTimestamps) + 1
                           /\ response'[j] = 0
          /\ Answers(j) => UNCHANGED <<totalLookups, lookupTimestamps,
                                       definitionRequests>>]_vars

\* C33 witness: the full ring has taken two more lookups, one of them
\* answered 200 and one 502.
C33_Witness ==
  /\ totalLookups = RING_CAPACITY + 1
  /\ Len(lookupTimestamps) = RING_CAPACITY + 1
  /\ Len(definitionRequests) = RING_CAPACITY
  /\ \E j, k \in Jobs : response[j] = 200 /\ response[k] = 502

\* two characters that are equal or the two cases of one letter
sameLetter(a, b) ==
  \/ a = b
  \/ \E k \in 1..Len(UpperCase) : {a, b} = {UpperCase[k], LowerCase[k]}

\* two terms that differ at most in letter case and surrounding whitespace
sameTerm(s, t) ==
  LET x == trim(s)
      y == trim(t)
  IN /\ Len(x) = Len(y)
     /\ \A i \in 1..Len(x) : sameLetter(x[i], y[i])

\* the lookups since the last reset, by position in the ring (which has not
\* reached its capacity), grouped into those that name the same term
sameTermGroups ==
  { {k \in 1..Len(definitionRequests) :
       sameTerm(definitionRequests[i].term, definitionRequests[k].term)} :
    i \in 1..Len(definitionRequests) }

\* C34: the unique count reported by /api/stats is the number of distinct
\* trimmed, lower-cased terms looked up since the last reset: a lookup whose
\* term differs from an earlier one only in letter case or surrounding
\* whitespace adds one to totalLookups and nothing to the unique count.
C34_UniqueCountsFoldedTerms ==
  /\ [](GetStats.uniqueWordsLookedUp = Cardinality(sameTermGroups))
  /\ [][\A j \in Jobs :
          Accepts(j) =>
            /\ totalLookups' = totalLookups + 1
            /\ GetStats'.uniqueWordsLookedUp = GetStats.uniqueWordsLookedUp +
                 (IF \E i \in 1..Len(definitionRequests) :
                        sameTerm(definitionRequests[i].term, reqTerm'[j])
                  THEN 0 ELSE 1)]_vars

\* C34 witness: three lookups since the last reset, two of them of one term
\* in different spellings, give a unique count of two.
C34_Witness ==
  /\ totalLookups = 3
  /\ GetStats.uniqueWordsLookedUp = 2
  /\ \E j, k \in Jobs :
       /\ j # k
       /\ response[j] = 0
       /\ response[k] = 0
       /\ added[j] = 1
       /\ added[k] = 1
       /\ reqTerm[j] # reqTerm[k]
       /\ toLowerCase(trim(reqTerm[j])) = toLowerCase(trim(reqTerm[k]))
       /\ \E i \in 1..Len(definitionRequests) :
            definitionRequests[i].term = trim(reqTerm[j])

\* the lookups accepted since the last reset (the ring has not reached its
\* capacity) that are at most the given minutes old
lookupsWithin(minutes) ==
  Cardinality({i \in 1..Len(definitionRequests) :
                 now - definitionRequests[i].timestamp <= minutes * 60000})

\* C35: in every /api/stats snapshot the engagement counts are nested,
\* last1min <= last5min <= last10min <= last15min <= last30min <=
\* totalLookups, and each count is the number of accepted lookups whose
\* timestamp lies within that window of the snapshot time.
C35_EngagementNested ==
  LET e == GetStats.engagementByInterval IN
  /\ DOMAIN e = {1, 5, 10, 15, 30}
  /\ e[1] <= e[5]
  /\ e[5] <= e[10]
  /\ e[10] <= e[15]
  /\ e[15] <= e[30]
  /\ e[30] <= GetStats.totalLookups
  /\ \A minutes \in DOMAIN e : e[minutes] = lookupsWithin(minutes)

\* C35 witness: of three lookups one is older than 30 minutes, one older
\* than 15 and one exactly 5 minutes old.
C35_Witness ==
  LET e == GetStats.engagementByInterval IN
  /\ GetStats.totalLookups = 3
  /\ e[30] = 2
  /\ e[15] = 1
  /\ e[5] = 1
  /\ e[1] = 0
  /\ lookupTimestamps[3] = now - 5 * 60000

\* C36: no connection holds both roles: the registered presenter is never a
\* member of the audience set, and a connection that was refused or has
\* closed is neither the presenter nor in the audience set.
C36_RolesExclusive ==
  /\ presenter # NULL => presenter \notin SeqToSet(audience)
  /\ \A c \in Conns :
       (Refused(c) \/ connState[c] = "CLOSED") =>
         /\ c \notin SeqToSet(audience)
         /\ c # presenter

\* C36 witness: an audience connection and a presenter have closed, and a
\* later presenter is registered beside an open audience connection.
C36_Witness ==
  \E c, d, e \in Conns :
    /\ connState[c] = "CLOSED" /\ role[c] = "audience" /\ ~Refused(c)
    /\ connState[d] = "OPEN" /\ role[d] = "audience" /\ d \in SeqToSet(audience)
    /\ presenter = e /\ connState[e] = "OPEN"

\* C37: a connection that has answered every ping it was sent is not
\* touched by a heartbeat tick, whatever the tick does to the others: its
\* socket is not terminated, it stays in the audience set if it was there
\* and keeps the presenter slot if it held it.
C37_ResponsiveSurvives ==
  [][HeartbeatTick => \A c \in clients :
        ~pinged[c] =>
          /\ connState'[c] = connState[c]
          /\ c \in SeqToSet(audience) => c \in SeqToSet(audience')
          /\ presenter = c => presenter' = c]_vars

\* C37 witness: a later connection was terminated for a missing pong while an
\* earlier one, pinged by the same ticks, answered each time and is still
\* open and registered; so is the presenter.
C37_Witness ==
  \E c, d, e \in Conns :
    /\ c < d
    /\ connState[d] = "TERMINATED" /\ closeCode[d] = 0
    /\ connState[c] = "OPEN" /\ ~pinged[c] /\ isAlive[c] = "true"
    /\ c \in SeqToSet(audience)
    /\ e < d
    /\ presenter = e /\ connState[e] = "OPEN" /\ ~pinged[e]

\* no two words of the list have the same id
distinctIds(words) ==
  \A i, k \in 1..Len(words) : words[i].id = words[k].id => i = k

\* C38: the client never displays the same caption word twice: a word whose
\* id equals the id of a word already received, pending or accepted, is
\* filtered out, so no id occurs twice in the transcript, in the pending
\* queue or in the displayed list.
C38_NoWordTwice ==
  /\ distinctIds(parts)
  /\ distinctIds(pendingWords)
  /\ distinctIds(displayedParts)

\* the WebSocket opened last, or the first one when none has opened
lastOpened == IF established = {} THEN 1 ELSE CHOOSE s \in established :
                                                \A t \in established : t <= s

\* reconnects since the last open: the WebSockets created after it and the
\* timeouts that will create one
reconnectsSinceOpen ==
  Cardinality({s \in Sockets : s > lastOpened /\ wsReadyState[s] # "NONE"})
    + Cardinality(pendingTimers)

\* the client's WebSockets that are CONNECTING or OPEN
liveSockets == {s \in Sockets : wsReadyState[s] \in {"CONNECTING", "OPEN"}}

\* C39: the client reconnects at most 3 times without a successful open in
\* between and the counter is 0 again after an open; a close with code 1000
\* sets no reconnect timeout; and there is never more than one reconnect
\* timeout or WebSocket in CONNECTING or OPEN state.
C39_ReconnectBounded ==
  /\ [](/\ reconnectsSinceOpen <= RETRY_LIMIT
        /\ retryCountRef <= RETRY_LIMIT
        /\ Cardinality(pendingTimers) + Cardinality(liveSockets) <= 1)
  /\ [][\A s \in Sockets :
          /\ onclose(s, CLOSE_NORMAL) => pendingTimers' = pendingTimers
          /\ onopen(s) => retryCountRef' = 0]_vars

\* C39 witness: after an open and an abnormal close three reconnects have
\* failed and the client has given up: no timeout is set, no WebSocket is
\* left, and the component is still mounted.
C39_Witness ==
  /\ mounted = "mounted"
  /\ established # {}
  /\ retryCountRef = RETRY_LIMIT
  /\ reconnectsSinceOpen = RETRY_LIMIT
  /\ pendingTimers = {}
  /\ liveSockets = {}
  /\ wsReadyState[wsRef] = "CLOSED"

====
